---- MODULE Spec2Model ----
(***************************************************************************)
(* Validation and cross-entity consistency engine of Data-alchemist:       *)
(* the entity registry (lib/data-context), the rule catalog, the record    *)
(* validator and the cross-record validator (lib/validation-engine).       *)
(*                                                                         *)
(* JavaScript values are tagged records.  A string is a sequence of        *)
(* characters; a word such as "React" stands for one (upper-case) letter   *)
(* and "react" for the same letter in lower case, digits and punctuation   *)
(* are the characters themselves.  A record (a JS object) is a function    *)
(* from its own keys to values, so DOMAIN r is Object.keys(r).             *)
(***************************************************************************)
EXTENDS Integers, Sequences, FiniteSets, TLC

VARIABLES
    registry,   \* data-context: the three collections
    rules,      \* ValidationEngine.rules: kind -> ordered list of rules
    pc,         \* "idle", or the operation whose result `out` holds
    inp,        \* the arguments of the call that produced `out`
    out,        \* the value the call returned
    edits,      \* number of catalog mutations made so far
    last,       \* history: per kind, the value most recently passed to setData
    prev,       \* history: the validateBatch call before a repeated one
    flight,     \* the validateBatch call under way, step by step
    ingest,     \* the parseFile calls under way, step by step
    grid        \* the state of a DataGrid component

\* the variables of the components an operation of the engine or the registry
\* leaves alone
aside == <<prev, flight, ingest, grid>>

vars == <<registry, rules, pc, inp, out, edits, last, prev, flight, ingest, grid>>

DataTypes == {"clients", "workers", "tasks"}

-----------------------------------------------------------------------------
(* Bounds of the model *)

MaxBatch == 2       \* records in one validateBatch call
MaxTime == 1        \* the clock read by new Date() ranges over 0..MaxTime
MaxEdits == 2       \* addRule / removeRule calls made on the catalog
MaxResults == 3     \* results handed to one generateValidationReport call
MaxLen == 3         \* characters of a text handed to parseNumberList
MaxRows == 2        \* rows of a DataGrid
MaxInFlight == 2    \* validateBatch calls of a DataGrid that are under way

-----------------------------------------------------------------------------
(* Constants of the program *)

TopIssuesLimit == 10    \* .slice(0, 10)

-----------------------------------------------------------------------------
(* JavaScript values *)

Undefined == [t |-> "undefined"]
Null == [t |-> "null"]
NaN == [t |-> "NaN"]
Num(n) == [t |-> "number", v |-> n]
Str(s) == [t |-> "string", v |-> s]
Arr(a) == [t |-> "array", v |-> a]

S(c) == Str(<<c>>)

IsNullish(v) == v.t \in {"undefined", "null"}

\* a ?? b
Coalesce(a, b) == IF IsNullish(a) THEN b ELSE a

\* ToBoolean
Truthy(v) ==
    CASE v.t \in {"undefined", "null", "NaN"} -> FALSE
      [] v.t = "number" -> v.v # 0
      [] v.t = "string" -> v.v # <<>>
      [] OTHER -> TRUE

\* record[key], undefined for a key the object does not have
Get(record, key) == IF key \in DOMAIN record THEN record[key] ELSE Undefined

Digits == <<"0", "1", "2", "3", "4", "5", "6", "7", "8", "9">>

IsDigit(c) == \E i \in 1..10 : Digits[i] = c

DigitVal(c) == (CHOOSE i \in 1..10 : Digits[i] = c) - 1

IsSpace(c) == c = " "

\* String.prototype.toLowerCase, on the letters of the alphabet
LowerChar(c) ==
    CASE c = "React" -> "react"
      [] c = "Python" -> "python"
      [] c = "C1" -> "c1"
      [] c = "C9" -> "c9"
      [] c = "T1" -> "t1"
      [] c = "T2" -> "t2"
      [] c = "T3" -> "t3"
      [] c = "T9" -> "t9"
      [] OTHER -> c

toLowerCase(s) == [i \in 1..Len(s) |-> LowerChar(s[i])]

\* list.map(s => s.toLowerCase())
toLowerCaseAll(list) == [i \in 1..Len(list) |-> toLowerCase(list[i])]

RECURSIVE trimStart(_)
trimStart(s) == IF s # <<>> /\ IsSpace(Head(s)) THEN trimStart(Tail(s)) ELSE s

RECURSIVE trimEnd(_)
trimEnd(s) ==
    IF s # <<>> /\ IsSpace(s[Len(s)]) THEN trimEnd(SubSeq(s, 1, Len(s) - 1)) ELSE s

\* String.prototype.trim
trim(s) == trimEnd(trimStart(s))

RECURSIVE DigitsOf(_)
DigitsOf(n) == IF n < 10 THEN <<Digits[n + 1]>> ELSE DigitsOf(n \div 10) \o <<Digits[(n % 10) + 1]>>

\* Number.prototype.toString, for an integer
NumToStr(n) == IF n < 0 THEN <<"-">> \o DigitsOf(0 - n) ELSE DigitsOf(n)

RECURSIVE DigitsVal(_)
DigitsVal(s) == IF s = <<>> THEN 0 ELSE 10 * DigitsVal(SubSeq(s, 1, Len(s) - 1)) + DigitVal(s[Len(s)])

AllDigits(s) == s # <<>> /\ \A i \in 1..Len(s) : IsDigit(s[i])

\* StringToNumber: the empty string is 0, an integer literal its value, any
\* other text of the alphabet NaN (the alphabet has no decimal literals)
StrToNum(s) ==
    LET u == trim(s) IN
    IF u = <<>> THEN Num(0)
    ELSE IF AllDigits(u) THEN Num(DigitsVal(u))
    ELSE IF Head(u) = "-" /\ AllDigits(Tail(u)) THEN Num(0 - DigitsVal(Tail(u)))
    ELSE NaN

RECURSIVE Join(_, _)
\* Array.prototype.join over a sequence of strings
Join(strs, sep) ==
    IF strs = <<>> THEN <<>>
    ELSE IF Len(strs) = 1 THEN strs[1]
    ELSE strs[1] \o sep \o Join(Tail(strs), sep)

\* String(v) for a value that is not an array
PrimToStr(v) ==
    CASE v.t = "string" -> v.v
      [] v.t = "number" -> NumToStr(v.v)
      [] v.t = "NaN" -> <<"NaN">>
      [] v.t = "null" -> <<"null">>
      [] OTHER -> <<"undefined">>

\* String(v); an array joins its elements with ",", null and undefined as ""
ToStr(v) ==
    IF v.t = "array"
    THEN Join([i \in 1..Len(v.v) |->
                 IF IsNullish(v.v[i]) THEN <<>> ELSE PrimToStr(v.v[i])], <<",">>)
    ELSE PrimToStr(v)

\* Number(v)
ToNumber(v) ==
    CASE v.t = "number" -> v
      [] v.t = "NaN" -> NaN
      [] v.t = "undefined" -> NaN
      [] v.t = "null" -> Num(0)
      [] OTHER -> StrToNum(ToStr(v))

\* Number.isFinite
IsFinite(v) == v.t = "number"

\* Array.prototype.includes over a sequence
Includes(s, x) == \E i \in 1..Len(s) : s[i] = x

RECURSIVE Flatten(_)
\* Array.prototype.flat, one level
Flatten(ss) == IF ss = <<>> THEN <<>> ELSE Head(ss) \o Flatten(Tail(ss))

-----------------------------------------------------------------------------
(* Rule catalog: ValidationRule and the default rules *)

Cond(k, lo, hi, opts) == [k |-> k, lo |-> lo, hi |-> hi, opts |-> opts]

\* 'value != null && value.trim() != ""'
CondRequired == Cond("required", 0, 0, <<>>)
\* "value >= lo && value <= hi"
CondRange(lo, hi) == Cond("range", lo, hi, <<>>)
\* "value === undefined || (Number(value) >= lo && Number(value) <= hi)"
CondOptRange(lo, hi) == Cond("optRange", lo, hi, <<>>)
\* "/^[^\\s@]+@[^\\s@]+\\.[^\\s@]+$/.test(value)"
CondEmail == Cond("email", 0, 0, <<>>)
\* "Array.isArray(value) && value.length > 0"
CondNonEmptyArray == Cond("nonEmptyArray", 0, 0, <<>>)
\* '[...].includes(value)'
CondIncludes(opts) == Cond("includes", 0, 0, opts)
\* "new Date(value) > new Date()"
CondFuture == Cond("future", 0, 0, <<>>)
\* a condition text that is not an expression: new Function throws SyntaxError
CondMalformed == Cond("malformed", 0, 0, <<>>)
\* "value.length > 0": a TypeError on null and undefined
CondHasLength == Cond("hasLength", 0, 0, <<>>)

Rule(id, field, type, condition, message, severity, fix) ==
    [id |-> id, field |-> field, type |-> type, condition |-> condition,
     message |-> message, severity |-> severity, fixSuggestion |-> fix]

DefaultClientRules == <<
    Rule("client-name-required", "ClientName", "required", CondRequired,
         "Client name is required", "error", <<>>),
    Rule("client-id-required", "ClientID", "required", CondRequired,
         "Client ID is required", "error", <<>>),
    Rule("client-priority-level-range", "PriorityLevel", "range", CondRange(1, 5),
         "Priority level must be between 1 and 5", "error", <<>>),
    Rule("client-budget-range", "budget", "range", CondOptRange(1000, 1000000),
         "Budget should be between $1,000 and $1,000,000", "warning", <<>>) >>

DefaultWorkerRules == <<
    Rule("worker-name-required", "name", "required", CondRequired,
         "Worker name is required", "error", <<>>),
    Rule("worker-email-format", "email", "format", CondEmail,
         "Please provide a valid email address", "error",
         <<"Check email format (example@domain.com)">>),
    Rule("worker-rate-range", "hourlyRate", "range", CondRange(15, 500),
         "Hourly rate should be between $15 and $500", "warning", <<>>),
    Rule("worker-skills-required", "skills", "custom", CondNonEmptyArray,
         "At least one skill is required", "error", <<>>),
    Rule("worker-availability-valid", "availability", "custom",
         CondIncludes(<<"available", "busy", "unavailable">>),
         "Availability must be available, busy, or unavailable", "error",
         <<"Use: available, busy, or unavailable">>) >>

DefaultTaskRules == <<
    Rule("task-title-required", "title", "required", CondRequired,
         "Task title is required", "error", <<>>),
    Rule("task-deadline-future", "deadline", "custom", CondFuture,
         "Deadline should be in the future", "warning", <<>>),
    Rule("task-hours-range", "estimatedHours", "range", CondRange(1, 1000),
         "Estimated hours should be between 1 and 1000", "warning", <<>>),
    Rule("task-priority-valid", "priority", "custom",
         CondIncludes(<<"urgent", "high", "medium", "low">>),
         "Priority must be urgent, high, medium, or low", "error",
         <<"Use: urgent, high, medium, or low">>) >>

\* the catalog the constructor builds, one addRule per default rule
initializeDefaultRules ==
    [k \in DataTypes |->
        CASE k = "clients" -> DefaultClientRules
          [] k = "workers" -> DefaultWorkerRules
          [] OTHER -> DefaultTaskRules]

\* this.rules after addRule(dataType, rule)
addRule(rls, dataType, rule) == [rls EXCEPT ![dataType] = Append(@, rule)]

\* rules.findIndex(rule => rule.id === ruleId), 0 for -1
FindIndex(list, ruleId) ==
    IF \E i \in 1..Len(list) : list[i].id = ruleId
    THEN CHOOSE i \in 1..Len(list) :
            list[i].id = ruleId /\ \A j \in 1..(i - 1) : list[j].id # ruleId
    ELSE 0

\* this.rules after removeRule(dataType, ruleId): splice(index, 1)
removeRule(rls, dataType, ruleId) ==
    LET list == rls[dataType]
        index == FindIndex(list, ruleId)
    IN  IF index > 0
        THEN [rls EXCEPT ![dataType] =
                SubSeq(list, 1, index - 1) \o SubSeq(list, index + 1, Len(list))]
        ELSE rls

\* Object.assign(rule, updates): the fields of updates overwrite those of rule
Assign(rule, updates) ==
    [f \in DOMAIN rule \cup DOMAIN updates |->
        IF f \in DOMAIN updates THEN updates[f] ELSE rule[f]]

\* this.rules after updateRule(dataType, ruleId, updates): the first rule
\* with the id is assigned the updates
updateRule(rls, dataType, ruleId, updates) ==
    LET list == rls[dataType]
        index == FindIndex(list, ruleId)
    IN  IF index > 0
        THEN [rls EXCEPT ![dataType] = [list EXCEPT ![index] = Assign(@, updates)]]
        ELSE rls

-----------------------------------------------------------------------------
(* Record validator *)

\* the regular expression of worker-email-format on String(value): one "@",
\* no white space, a "." after the "@" with a character on each side of it
EmailTest(s) ==
    /\ \A i \in 1..Len(s) : ~IsSpace(s[i])
    /\ Cardinality({i \in 1..Len(s) : s[i] = "@"}) = 1
    /\ LET at == CHOOSE i \in 1..Len(s) : s[i] = "@"
       IN  /\ at > 1
           /\ \E j \in (at + 2)..(Len(s) - 1) : s[j] = "."

\* the time value of new Date(value): a number is the time itself, null is 0,
\* a date text its date, anything else an Invalid Date
DateOf(v) ==
    CASE v.t = "number" -> v
      [] v.t = "null" -> Num(0)
      [] v = S("1970-01-01T00:00:00.001Z") -> Num(1)
      [] OTHER -> NaN

\* the function new Function("value", "record", "Array", "Date",
\* `return ${condition}`) applied to the value: "T" truthy, "F" falsy,
\* "throw" when building or running it throws
RunCondition(c, value, now) ==
    CASE c.k = "required" ->
            IF IsNullish(value) THEN "F"
            ELSE IF value.t = "string"
                 THEN (IF trim(value.v) # <<>> THEN "T" ELSE "F")
                 ELSE "throw"
      [] c.k = "range" ->
            LET n == ToNumber(value)
            IN  IF n.t = "number" /\ n.v >= c.lo /\ n.v <= c.hi THEN "T" ELSE "F"
      [] c.k = "optRange" ->
            LET n == ToNumber(value)
            IN  IF value.t = "undefined" THEN "T"
                ELSE IF n.t = "number" /\ n.v >= c.lo /\ n.v <= c.hi THEN "T" ELSE "F"
      [] c.k = "email" -> IF EmailTest(ToStr(value)) THEN "T" ELSE "F"
      [] c.k = "nonEmptyArray" ->
            IF value.t = "array" /\ Len(value.v) > 0 THEN "T" ELSE "F"
      [] c.k = "includes" ->
            IF value.t = "string" /\ Len(value.v) = 1 /\ Includes(c.opts, value.v[1])
            THEN "T" ELSE "F"
      [] c.k = "future" ->
            LET d == DateOf(value)
            IN  IF d.t = "number" /\ d.v > now THEN "T" ELSE "F"
      [] c.k = "hasLength" ->
            IF IsNullish(value) THEN "throw"
            ELSE IF value.t \in {"string", "array"} /\ Len(value.v) > 0 THEN "T" ELSE "F"
      [] OTHER -> "throw"

\* the catch block returns false
evaluateConditionFailClosed(condition, value, now) ==
    RunCondition(condition, value, now) = "T"

\* evaluateCondition: the catch block returns true
evaluateCondition(condition, value, now) ==
    LET r == RunCondition(condition, value, now)
    IN  IF r = "throw" THEN TRUE ELSE r = "T"

\* getFieldValue: field.split(".").reduce((obj, key) => obj?.[key], record);
\* the values of a record are not objects, so a second path segment reads
\* a property no value of the alphabet has
getFieldValue(record, field) == Get(record, field)

Msg(text, args) == [text |-> text, args |-> args]

Finding(field, message, severity, sugg) ==
    [field |-> field, message |-> message, severity |-> severity, suggestions |-> sugg]

\* the finding validateRecord builds for a rule that failed
RuleFinding(rule) ==
    Finding(rule.field, Msg(rule.message, <<>>), rule.severity, rule.fixSuggestion)

\* Math.floor in the place of Math.round
MathFloor(p, q) == p \div q

\* Math.round of the rational p / q, q > 0: floor(p/q + 1/2)
MathRound(p, q) == (2 * p + q) \div (2 * q)

Max(a, b) == IF a >= b THEN a ELSE b
Min(a, b) == IF a <= b THEN a ELSE b

\* calculateQualityScore
calculateQualityScore(record, errors, warnings, suggestions) ==
    LET fields == DOMAIN record
        nonEmptyFields ==
            {f \in fields : record[f] # Null /\ record[f] # Undefined /\ record[f] # Str(<<>>)}
        nf == Cardinality(fields)
        base == 100 - Len(errors) * 20 - Len(warnings) * 10 - Len(suggestions) * 5
    IN  IF nf = 0
        THEN NaN    \* 0 / 0; Math.round, Math.min and Math.max keep NaN
        ELSE Num(Max(0, Min(100, MathRound(base * nf + Cardinality(nonEmptyFields) * 10, nf))))

RECURSIVE ApplyRules(_, _, _)
\* the loop over the rules: the findings in rule order
ApplyRules(list, record, now) ==
    IF list = <<>> THEN <<>>
    ELSE LET rule == Head(list)
             fieldValue == getFieldValue(record, rule.field)
             isValid == evaluateCondition(rule.condition, fieldValue, now)
         IN  (IF isValid THEN <<>> ELSE <<RuleFinding(rule)>>)
             \o ApplyRules(Tail(list), record, now)

\* record.id || record._rowIndex?.toString()
RecordIdOf(record) ==
    LET id == Get(record, "id")
        row == Get(record, "_rowIndex")
    IN  IF Truthy(id) THEN id
        ELSE IF IsNullish(row) THEN Undefined ELSE Str(ToStr(row))

\* a rule finding routed as a warning is pushed onto errors
RouteWarningsAsErrors(found, ai) ==
    LET IsError(f) == f.severity \in {"error", "warning"}
        IsOther(f) == f.severity \notin {"error", "warning"}
    IN  [errors |-> SelectSeq(found, IsError) \o ai.errors,
         warnings |-> ai.warnings,
         suggestions |-> SelectSeq(found, IsOther) \o ai.suggestions]

\* the three lists of validateRecord: each rule finding pushed by severity,
\* then the lists of the AI answer appended
Route(found, ai) ==
    LET IsError(f) == f.severity = "error"
        IsWarning(f) == f.severity = "warning"
        IsOther(f) == f.severity \notin {"error", "warning"}
    IN  [errors |-> SelectSeq(found, IsError) \o ai.errors,
         warnings |-> SelectSeq(found, IsWarning) \o ai.warnings,
         suggestions |-> SelectSeq(found, IsOther) \o ai.suggestions]

\* validateRecord; ai is what performAIValidation returned, now the clock
validateRecord(rls, record, dataType, ai, now) ==
    LET lists == Route(ApplyRules(rls[dataType], record, now), ai)
        score == calculateQualityScore(record, lists.errors, lists.warnings, lists.suggestions)
    IN  [isValid |-> Len(lists.errors) = 0,
         errors |-> lists.errors,
         warnings |-> lists.warnings,
         suggestions |-> lists.suggestions,
         score |-> score,
         recordId |-> RecordIdOf(record),
         recordType |-> dataType,
         qualityScore |-> score,
         validatedAt |-> now]

-----------------------------------------------------------------------------
(* List-parsing helpers *)

RECURSIVE SplitAt(_, _)
\* the pieces of s between the occurrences of the character c
SplitAt(s, c) ==
    IF \E i \in 1..Len(s) : s[i] = c
    THEN LET i == CHOOSE k \in 1..Len(s) : s[k] = c /\ \A j \in 1..(k - 1) : s[j] # c
         IN  <<SubSeq(s, 1, i - 1)>> \o SplitAt(SubSeq(s, i + 1, Len(s)), c)
    ELSE <<s>>

\* String.prototype.split(/\s*,\s*/): the white space next to a comma belongs
\* to the separator
SplitComma(s) ==
    LET raw == SplitAt(s, ",")
    IN  [i \in 1..Len(raw) |->
            LET a == IF i > 1 THEN trimStart(raw[i]) ELSE raw[i]
            IN  IF i < Len(raw) THEN trimEnd(a) ELSE a]

\* s.replace(/^\"|\"$/g, ""): one quote off each end
StripQuotes(s) ==
    LET a == IF s # <<>> /\ Head(s) = "\"" THEN Tail(s) ELSE s
    IN  IF a # <<>> /\ a[Len(a)] = "\"" THEN SubSeq(a, 1, Len(a) - 1) ELSE a

NonEmptyStr(s) == s # <<>>

\* parseStringList
parseStringList(input) ==
    IF input.t = "array"
    THEN SelectSeq([i \in 1..Len(input.v) |-> trim(ToStr(input.v[i]))], NonEmptyStr)
    ELSE IF input.t = "string"
    THEN LET parts == SplitComma(input.v)
         IN  SelectSeq([i \in 1..Len(parts) |-> trim(StripQuotes(parts[i]))], NonEmptyStr)
    ELSE <<>>

IsFiniteNum(v) == IsFinite(v)

\* input.map(n => Number(n)).filter(n => Number.isFinite(n)), as integers
NumbersOf(values) ==
    LET nums == SelectSeq([i \in 1..Len(values) |-> ToNumber(values[i])], IsFiniteNum)
    IN  [i \in 1..Len(nums) |-> nums[i].v]

\* a JSON number of the alphabet: an integer literal without a leading zero
IsJsonInt(s) ==
    LET d == IF s # <<>> /\ Head(s) = "-" THEN Tail(s) ELSE s
    IN  AllDigits(d) /\ (Len(d) = 1 \/ Head(d) # "0")

\* a JSON string without escapes
IsJsonStr(s) ==
    /\ Len(s) >= 2
    /\ Head(s) = "\""
    /\ s[Len(s)] = "\""
    /\ \A i \in 2..(Len(s) - 1) : s[i] # "\""

\* JSON.parse of a text that starts with "[" and ends with "]": the array of
\* its numbers and strings, or "throw" (SyntaxError)
JsonParseArray(s) ==
    LET body == trim(SubSeq(s, 2, Len(s) - 1))
        items == SplitAt(body, ",")
        item(i) == trim(items[i])
    IN  IF Len(s) < 2 THEN [ok |-> FALSE, v |-> <<>>]
        ELSE IF body = <<>> THEN [ok |-> TRUE, v |-> <<>>]
        ELSE IF \A i \in 1..Len(items) : IsJsonInt(item(i)) \/ IsJsonStr(item(i))
        THEN [ok |-> TRUE,
              v |-> [i \in 1..Len(items) |->
                        IF IsJsonInt(item(i)) THEN StrToNum(item(i))
                        ELSE Str(SubSeq(item(i), 2, Len(item(i)) - 1))]]
        ELSE [ok |-> FALSE, v |-> <<>>]

\* /^(\d+)\s*-\s*(\d+)$/
RangeMatch(s) ==
    IF \E i \in 1..Len(s) : s[i] = "-"
    THEN LET i == CHOOSE k \in 1..Len(s) : s[k] = "-" /\ \A j \in 1..(k - 1) : s[j] # "-"
             a == trimEnd(SubSeq(s, 1, i - 1))
             b == trimStart(SubSeq(s, i + 1, Len(s)))
         IN  IF AllDigits(a) /\ AllDigits(b)
             THEN [ok |-> TRUE, a |-> DigitsVal(a), b |-> DigitsVal(b)]
             ELSE [ok |-> FALSE, a |-> 0, b |-> 0]
    ELSE [ok |-> FALSE, a |-> 0, b |-> 0]

NotBracket(c) == c \notin {"[", "]"}

\* parseNumberList
parseNumberList(input) ==
    IF input.t = "array" THEN NumbersOf(input.v)
    ELSE IF input.t = "string"
    THEN LET trimmed == trim(input.v)
             isJson == trimmed # <<>> /\ Head(trimmed) = "[" /\ trimmed[Len(trimmed)] = "]"
             arr == JsonParseArray(trimmed)
             rangeMatch == RangeMatch(trimmed)
             parts == SelectSeq(SplitComma(SelectSeq(trimmed, NotBracket)), NonEmptyStr)
         IN  IF isJson /\ arr.ok THEN NumbersOf(arr.v)
             ELSE IF rangeMatch.ok /\ rangeMatch.a <= rangeMatch.b
             THEN [i \in 1..(rangeMatch.b - rangeMatch.a + 1) |-> rangeMatch.a + i - 1]
             ELSE NumbersOf([i \in 1..Len(parts) |-> Str(parts[i])])
    ELSE <<>>

\* the outcome of a call: it threw, or it returned a value
Thrown == [threw |-> TRUE]
Returns(value) == [threw |-> FALSE, value |-> value]

\* the digit strings of /^(\d+)\s*-\s*(\d+)$/
RangeDigits(s) ==
    IF \E i \in 1..Len(s) : s[i] = "-"
    THEN LET i == CHOOSE k \in 1..Len(s) : s[k] = "-" /\ \A j \in 1..(k - 1) : s[j] # "-"
             a == trimEnd(SubSeq(s, 1, i - 1))
             b == trimStart(SubSeq(s, i + 1, Len(s)))
         IN  [ok |-> AllDigits(a) /\ AllDigits(b), a |-> a, b |-> b]
    ELSE [ok |-> FALSE, a |-> <<>>, b |-> <<>>]

RECURSIVE Significant(_)
\* a decimal numeral without its leading zeros
Significant(d) == IF Len(d) > 1 /\ Head(d) = "0" THEN Significant(Tail(d)) ELSE d

\* b - a + 1 is more than 2^32 - 1, the greatest length of an array: certain
\* when b has more than ten digits and a fewer than ten
ExceedsArrayLength(a, b) == Len(Significant(b)) > 10 /\ Len(Significant(a)) < 10

\* parseNumberList throws: Array.from({ length: b - a + 1 }, ...) throws a
\* RangeError for a length no array can have; the statement is in no try
\* block
parseNumberListThrows(input) ==
    /\ input.t = "string"
    /\ LET trimmed == trim(input.v)
           isJson == trimmed # <<>> /\ Head(trimmed) = "[" /\ trimmed[Len(trimmed)] = "]"
           range == RangeDigits(trimmed)
       IN  /\ ~(isJson /\ JsonParseArray(trimmed).ok)
           /\ range.ok
           /\ ExceedsArrayLength(range.a, range.b)

\* a call of parseNumberList to its end
ParseNumberListCall(input) ==
    IF parseNumberListThrows(input) THEN Thrown ELSE Returns(parseNumberList(input))

-----------------------------------------------------------------------------
(* Entity registry *)

\* a setData that adds the rows to the collection
setDataAppending(reg, type, data) ==
    [reg EXCEPT ![type] = @ \o (IF data.t = "array" THEN data.v ELSE <<>>)]

\* the collection is stored and the other two are reset
setDataFresh(reg, type, data) ==
    [k \in DataTypes |-> IF k # type THEN <<>>
                         ELSE IF data.t = "array" THEN data.v ELSE <<>>]

\* setData: registry[type] = Array.isArray(data) ? data : []; data is a
\* JavaScript value, an array holding the sequence of its records
setData(reg, type, data) ==
    [reg EXCEPT ![type] = IF data.t = "array" THEN data.v ELSE <<>>]

\* getData: registry[type] || []
getData(reg, type) == reg[type]

-----------------------------------------------------------------------------
(* Cross-record validator *)

\* getKeyFields
getKeyFields(dataType) ==
    CASE dataType = "clients" -> <<"id", "ClientID", "email", "name", "ClientName">>
      [] dataType = "workers" -> <<"id", "email", "name">>
      [] dataType = "tasks" -> <<"id", "TaskID", "TaskName">>
      [] OTHER -> <<>>

\* the key without toLowerCase and trim
DupKeyExact(record, field) ==
    LET value == getFieldValue(record, field)
    IN  IF Truthy(value) THEN [some |-> TRUE, key |-> ToStr(value)]
        ELSE [some |-> FALSE, key |-> <<>>]

\* the key findDuplicates files a record under for a field: "none" when the
\* value is falsy, else String(value).toLowerCase().trim()
DupKey(record, field) ==
    LET value == getFieldValue(record, field)
    IN  IF Truthy(value) THEN [some |-> TRUE, key |-> trim(toLowerCase(ToStr(value)))]
        ELSE [some |-> FALSE, key |-> <<>>]

\* findDuplicates, seen from record `index`: the warnings pushed onto its
\* result, one per key field whose group holds more than one index
DuplicateWarnings(records, dataType, index) ==
    LET keyFields == getKeyFields(dataType)
        k(i, f) == DupKey(records[i], keyFields[f])
        indices(f) == {i \in 1..Len(records) :
                          k(i, f).some /\ k(index, f).some /\ k(i, f).key = k(index, f).key}
        hit(f) == IF Cardinality(indices(f)) > 1
                  THEN <<Finding(keyFields[f],
                                 Msg("Duplicate {field}: \"{value}\" found in multiple records",
                                     <<<<keyFields[f]>>, k(index, f).key>>),
                                 "warning",
                                 <<"Review for potential duplicate entries">>)>>
                  ELSE <<>>
    IN  Flatten([f \in 1..Len(keyFields) |-> hit(f)])

\* the comparison without toLowerCase
isValidClientReferenceExact(reg, clientId) ==
    LET clients == getData(reg, "clients")
        idFieldCandidates == <<"id", "ClientID", "clientId">>
        text(v) == IF Truthy(v) THEN ToStr(v) ELSE <<>>
    IN  \E c \in 1..Len(clients) : \E k \in 1..Len(idFieldCandidates) :
            text(Get(clients[c], idFieldCandidates[k])) = ToStr(clientId)

\* isValidClientReference; getData does not throw, so the catch is not taken
isValidClientReference(reg, clientId) ==
    LET clients == getData(reg, "clients")
        idFieldCandidates == <<"id", "ClientID", "clientId">>
        text(v) == IF Truthy(v) THEN ToStr(v) ELSE <<>>
    IN  \E c \in 1..Len(clients) : \E k \in 1..Len(idFieldCandidates) :
            toLowerCase(text(Get(clients[c], idFieldCandidates[k])))
                = toLowerCase(ToStr(clientId))

\* candidates.find(v => v)
FirstTruthy(candidates) ==
    IF \E i \in 1..Len(candidates) : Truthy(candidates[i])
    THEN candidates[CHOOSE i \in 1..Len(candidates) :
                        Truthy(candidates[i]) /\ \A j \in 1..(i - 1) : ~Truthy(candidates[j])]
    ELSE Undefined

\* the client-reference check on one task
ClientRefErrors(reg, record) ==
    LET ref == FirstTruthy(<<Get(record, "clientId"), Get(record, "ClientID"),
                             Get(record, "client_id")>>)
    IN  IF Truthy(ref) /\ ~isValidClientReference(reg, ref)
        THEN <<Finding("clientId", Msg("Referenced client does not exist", <<>>), "error",
                       <<"Verify client ID exists in clients data">>)>>
        ELSE <<>>

\* the Duration check on one task
DurationErrors(record) ==
    LET duration == ToNumber(Coalesce(Get(record, "Duration"),
                             Coalesce(Get(record, "duration"),
                             Coalesce(Get(record, "estimatedHours"),
                                      Get(record, "estimated_hours")))))
    IN  IF ~IsFinite(duration) \/ duration.v < 1
        THEN <<Finding("Duration", Msg("Duration must be a positive number (>= 1)", <<>>),
                       "error", <<"Set Duration to an integer >= 1">>)>>
        ELSE <<>>

\* the PreferredPhases parsing check on one task
PreferredPhasesErrors(record) ==
    LET raw == Coalesce(Get(record, "PreferredPhases"), Get(record, "preferredPhases"))
    IN  IF raw = Undefined THEN <<>>
        ELSE IF Len(parseNumberList(raw)) = 0
        THEN <<Finding("PreferredPhases",
                       Msg("PreferredPhases must be a list/range like '1-3' or [2,4,5]", <<>>),
                       "error", <<>>)>>
        ELSE <<>>

\* the AvailableSlots check on one worker
AvailableSlotsErrors(record) ==
    LET raw == Coalesce(Get(record, "AvailableSlots"), Get(record, "availableSlots"))
    IN  IF raw = Undefined THEN <<>>
        ELSE IF Len(parseNumberList(raw)) = 0
        THEN <<Finding("AvailableSlots",
                       Msg("AvailableSlots must be an array of numbers (e.g., [1,3,5])", <<>>),
                       "error", <<>>)>>
        ELSE <<>>

\* the skills of a worker or the required skills of a task, lower-cased
WorkerSkills(w) ==
    toLowerCaseAll(parseStringList(Coalesce(Get(w, "Skills"), Get(w, "skills"))))

\* the skill-coverage check on one task
SkillCoverageErrors(workers, t) ==
    LET workerSkills == Flatten([w \in 1..Len(workers) |-> WorkerSkills(workers[w])])
        skills == parseStringList(Coalesce(Get(t, "RequiredSkills"), Get(t, "requiredSkills")))
        IsMissing(s) == ~Includes(workerSkills, toLowerCase(s))
        missing == SelectSeq(skills, IsMissing)
    IN  IF Len(missing) > 0
        THEN <<Finding("RequiredSkills",
                       Msg("Missing worker coverage for skills: {missing}",
                           <<Join(missing, <<",", " ">>)>>),
                       "error",
                       <<"Add workers with these skills or adjust task requirements">>)>>
        ELSE <<>>

\* the number of workers that have some required skill of the task
QualifiedCountSome(workers, t) ==
    LET skills == toLowerCaseAll(
                     parseStringList(Coalesce(Get(t, "RequiredSkills"), Get(t, "requiredSkills"))))
    IN  Cardinality({w \in 1..Len(workers) :
            \E i \in 1..Len(skills) : Includes(WorkerSkills(workers[w]), skills[i])})

\* workers.filter(w => skills.every(s => ws.includes(s))).length
QualifiedCount(workers, t) ==
    LET skills == toLowerCaseAll(
                     parseStringList(Coalesce(Get(t, "RequiredSkills"), Get(t, "requiredSkills"))))
    IN  Cardinality({w \in 1..Len(workers) :
            \A i \in 1..Len(skills) : Includes(WorkerSkills(workers[w]), skills[i])})

\* the max-concurrency check on one task
MaxConcurrentErrors(workers, t) ==
    LET maxConc == ToNumber(Coalesce(Get(t, "MaxConcurrent"),
                            Coalesce(Get(t, "maxConcurrent"), Num(1))))
        qualified == QualifiedCount(workers, t)
    IN  IF IsFinite(maxConc) /\ maxConc.v > qualified
        THEN <<Finding("MaxConcurrent",
                       Msg("MaxConcurrent ({maxConc}) exceeds number of qualified workers ({qualified})",
                           <<ToStr(maxConc), NumToStr(qualified)>>),
                       "error",
                       <<"Lower MaxConcurrent or add more qualified workers">>)>>
        ELSE <<>>

\* occurrences of p in a sequence of numbers
Count(seq, p) == Cardinality({i \in 1..Len(seq) : seq[i] = p})

RECURSIVE Capacity(_, _)
\* capacity[p] || 0 after the loop over the workers
Capacity(workers, p) ==
    IF workers = <<>> THEN 0
    ELSE LET w == workers[Len(workers)]
             slots == parseNumberList(Coalesce(Get(w, "AvailableSlots"), Get(w, "availableSlots")))
             maxPerPhase == ToNumber(Coalesce(Get(w, "MaxLoadPerPhase"),
                                     Coalesce(Get(w, "maxLoadPerPhase"), Num(1))))
             load == IF IsFinite(maxPerPhase) THEN maxPerPhase.v ELSE 1
         IN  Capacity(SubSeq(workers, 1, Len(workers) - 1), p) + Count(slots, p) * load

\* the phase-slot saturation check on one task
PhaseWarnings(workers, t) ==
    LET duration == ToNumber(Coalesce(Get(t, "Duration"), Coalesce(Get(t, "duration"), Num(1))))
        phases == parseNumberList(Coalesce(Get(t, "PreferredPhases"), Get(t, "preferredPhases")))
        warn(i) ==
            LET p == phases[i]
                cap == Capacity(workers, p)
            IN  IF duration.v > cap
                THEN <<Finding("PreferredPhases",
                               Msg("Phase {p} demand ({duration}) may exceed worker capacity ({cap})",
                                   <<NumToStr(p), NumToStr(duration.v), NumToStr(cap)>>),
                               "warning",
                               <<"Adjust phases, increase capacity or reduce duration">>)>>
                ELSE <<>>
    IN  IF ~Truthy(duration) \/ Len(phases) = 0 THEN <<>>
        ELSE Flatten([i \in 1..Len(phases) |-> warn(i)])

\* the identifiers of the registry's tasks, lower-cased, empty ones dropped
TaskIds(tasks) ==
    {id \in {toLowerCase(ToStr(Coalesce(Get(tasks[i], "TaskID"),
                               Coalesce(Get(tasks[i], "id"),
                               Coalesce(Get(tasks[i], "title"), Str(<<>>))))))
                : i \in 1..Len(tasks)} : id # <<>>}

\* the RequestedTaskIDs check on one client
RequestedTaskErrors(tasks, c) ==
    LET raw == Coalesce(Get(c, "RequestedTaskIDs"),
               Coalesce(Get(c, "requestedTasks"), Get(c, "tasks")))
        ids == parseStringList(raw)
        IsUnknown(id) == toLowerCase(id) \notin TaskIds(tasks)
        unknown == SelectSeq(ids, IsUnknown)
    IN  IF Len(unknown) > 0
        THEN <<Finding("RequestedTaskIDs",
                       Msg("Unknown TaskIDs: {unknown}", <<Join(unknown, <<",", " ">>)>>),
                       "error",
                       <<"Correct TaskIDs or add missing tasks">>)>>
        ELSE <<>>

\* record.id || record._rowIndex?.toString() || index.toString()
CrossRecordIdOf(record, index) ==
    LET id == RecordIdOf(record)
    IN  IF Truthy(id) THEN id ELSE Str(NumToStr(index - 1))

\* the errors performCrossRecordValidation pushes for record i; workers,
\* tasks and clients are what getData returned
CrossErrors(reg, workers, tasks, clients, records, dataType, i) ==
    (IF dataType = "tasks"
     THEN ClientRefErrors(reg, records[i]) \o DurationErrors(records[i])
          \o PreferredPhasesErrors(records[i])
     ELSE <<>>)
    \o (IF dataType = "workers" THEN AvailableSlotsErrors(records[i]) ELSE <<>>)
    \o (IF Len(tasks) > 0 /\ Len(workers) > 0 /\ dataType = "tasks"
        THEN SkillCoverageErrors(workers, records[i])
             \o MaxConcurrentErrors(workers, records[i])
        ELSE <<>>)
    \o (IF Len(clients) > 0 /\ Len(tasks) > 0 /\ dataType = "clients"
        THEN RequestedTaskErrors(tasks, records[i])
        ELSE <<>>)

\* the warnings performCrossRecordValidation pushes for record i
CrossWarnings(workers, tasks, records, dataType, i) ==
    DuplicateWarnings(records, dataType, i)
    \o (IF Len(tasks) > 0 /\ Len(workers) > 0 /\ dataType = "tasks"
        THEN PhaseWarnings(workers, records[i])
        ELSE <<>>)

\* performCrossRecordValidation: the result built for every index of records.
\* The pushes of the source are grouped per index here, in the order of the
\* blocks.  Records are objects and getData returns arrays, so nothing inside
\* the try block throws and its empty catch is not taken.
performCrossRecordValidation(reg, records, dataType, now) ==
    [i \in 1..Len(records) |->
        [isValid |-> TRUE,
         errors |-> CrossErrors(reg, getData(reg, "workers"), getData(reg, "tasks"),
                                getData(reg, "clients"), records, dataType, i),
         warnings |-> CrossWarnings(getData(reg, "workers"), getData(reg, "tasks"),
                                    records, dataType, i),
         suggestions |-> <<>>,
         score |-> Num(100),
         recordId |-> CrossRecordIdOf(records[i], i),
         recordType |-> dataType,
         qualityScore |-> Num(100),
         validatedAt |-> now]]

\* a merge that forgets the cross-record warnings
MergeResultNoWarnings(result, crossResult) ==
    [result EXCEPT !.errors = @ \o crossResult.errors,
                   !.suggestions = @ \o crossResult.suggestions,
                   !.isValid = @ /\ crossResult.isValid]

\* a merge that takes the score of the cross-record result when that result
\* has findings
MergeResultScoring(result, crossResult) ==
    [result EXCEPT !.errors = @ \o crossResult.errors,
                   !.warnings = @ \o crossResult.warnings,
                   !.suggestions = @ \o crossResult.suggestions,
                   !.isValid = @ /\ crossResult.isValid,
                   !.score = IF crossResult.errors # <<>> THEN Num(0) ELSE @]

\* the merge of one cross-record result into the per-record result
MergeResult(result, crossResult) ==
    [result EXCEPT !.errors = @ \o crossResult.errors,
                   !.warnings = @ \o crossResult.warnings,
                   !.suggestions = @ \o crossResult.suggestions,
                   !.isValid = @ /\ crossResult.isValid]

\* crossValidation.forEach: each cross-record result is merged into the
\* per-record result of its index
MergeAll(results, crossValidation) ==
    [i \in DOMAIN results |-> MergeResult(results[i], crossValidation[i])]

\* validateBatch; ai[i] is what performAIValidation returned for record i
validateBatch(reg, rls, records, dataType, ai, now) ==
    MergeAll([i \in 1..Len(records) |->
                 validateRecord(rls, records[i], dataType, ai[i], now)],
             performCrossRecordValidation(reg, records, dataType, now))

-----------------------------------------------------------------------------
(* Validation report *)

\* a / b in JavaScript, for integers a >= 0 and b >= 0: 0 / 0 is NaN
Quotient(a, b) == IF b = 0 THEN NaN ELSE [t |-> "quotient", num |-> a, den |-> b]

RECURSIVE SumOf(_)
\* reduce((sum, x) => sum + x, 0) over numbers
SumOf(nums) == IF nums = <<>> THEN 0 ELSE Head(nums) + SumOf(Tail(nums))

\* the summary of generateValidationReport
Summary(results) ==
    LET IsValidResult(r) == r.isValid
        n == Len(results)
    IN  [totalRecords |-> n,
         validRecords |-> Len(SelectSeq(results, IsValidResult)),
         errorCount |-> SumOf([i \in 1..n |-> Len(results[i].errors)]),
         warningCount |-> SumOf([i \in 1..n |-> Len(results[i].warnings)]),
         averageScore |->
            IF \E i \in 1..n : results[i].score.t # "number" THEN NaN
            ELSE Quotient(SumOf([i \in 1..n |-> results[i].score.v]), n)]

RECURSIVE IssueMap(_, _)
\* issueMap after the issues of a list are counted into it; the entries are
\* in the order the Map holds them, that of first insertion
IssueMap(issues, map) ==
    IF issues = <<>> THEN map
    ELSE LET issue == Head(issues)
             key == issue.message
             at == {k \in 1..Len(map) : map[k].message = key}
         IN  IssueMap(Tail(issues),
                      IF at # {}
                      THEN [k \in 1..Len(map) |->
                              IF k \in at THEN [map[k] EXCEPT !.count = @ + 1] ELSE map[k]]
                      ELSE Append(map, [message |-> key, count |-> 1,
                                        severity |-> issue.severity]))

\* a sort that puts an entry before the entries of the same count
InsertByCountFirst(sorted, x) ==
    LET before == {k \in 1..Len(sorted) : sorted[k].count > x.count}
        n == Cardinality(before)
    IN  SubSeq(sorted, 1, n) \o <<x>> \o SubSeq(sorted, n + 1, Len(sorted))

\* x put into a list sorted by count descending, after the entries whose
\* count is at least that of x
InsertByCount(sorted, x) ==
    LET before == {k \in 1..Len(sorted) : sorted[k].count >= x.count}
        n == Cardinality(before)
    IN  SubSeq(sorted, 1, n) \o <<x>> \o SubSeq(sorted, n + 1, Len(sorted))

RECURSIVE SortByCount(_)
\* .sort((a, b) => b.count - a.count): Array.prototype.sort is stable
SortByCount(entries) ==
    IF entries = <<>> THEN <<>>
    ELSE InsertByCount(SortByCount(SubSeq(entries, 1, Len(entries) - 1)),
                       entries[Len(entries)])

\* [...result.errors, ...result.warnings]
CountedIssues(result) == result.errors \o result.warnings

\* topIssues of generateValidationReport
TopIssues(results) ==
    LET issues == Flatten([i \in 1..Len(results) |-> CountedIssues(results[i])])
        sorted == SortByCount(IssueMap(issues, <<>>))
    IN  SubSeq(sorted, 1, Min(TopIssuesLimit, Len(sorted)))

\* the default recommendations of generateRecommendations
DefaultRecommendations ==
    <<"Review and fix validation errors before proceeding",
      "Standardize data formats across all records",
      "Implement data entry guidelines for consistency",
      "Regular data quality audits are recommended",
      "Consider automated data cleaning processes">>

\* generateRecommendations without its catch block
generateRecommendationsUncaught(answer) ==
    IF answer.kind = "nokey" THEN Returns(DefaultRecommendations)
    ELSE IF answer.kind = "rejected" \/ ~answer.json THEN Thrown
    ELSE Returns(answer.value)

\* generateRecommendations: the default list without an API key; else the
\* text of the language model parsed as JSON; the default list when the
\* call is rejected or JSON.parse throws
generateRecommendations(answer) ==
    IF answer.kind = "nokey" THEN Returns(DefaultRecommendations)
    ELSE IF answer.kind = "rejected" \/ ~answer.json THEN Returns(DefaultRecommendations)
    ELSE Returns(answer.value)

\* the report generateValidationReport returns; recommendations is what
\* generateRecommendations returned
generateValidationReport(results, recommendations) ==
    [summary |-> Summary(results),
     topIssues |-> TopIssues(results),
     recommendations |-> recommendations]

\* a call of generateValidationReport to its end: an exception of
\* generateRecommendations would pass through the await
ReportCall(results, answer) ==
    LET recommended == generateRecommendations(answer)
    IN  IF recommended.threw THEN Thrown
        ELSE generateValidationReport(results, recommended.value)

-----------------------------------------------------------------------------
(* Inputs: the records, datasets and rules the operations are called with *)

WorkerAnn ==
    [_rowIndex |-> Num(2), name |-> S("ann"), Skills |-> S("React"),
     AvailableSlots |-> Str(<<"[", "1", ",", "2", "]">>), MaxLoadPerPhase |-> Num(1)]

WorkerBob ==
    [_rowIndex |-> Num(3), name |-> S("bob"), email |-> Str(<<"bob", "@", "x", ".", "io">>),
     skills |-> Arr(<<S("react"), Str(<<" ", "Python">>)>>),
     availability |-> S("busy"), hourlyRate |-> Num(20),
     AvailableSlots |-> Str(<<"1", "-", "3">>)]

WorkerEve ==
    [id |-> S("w3"), name |-> Str(<<" ", "ann">>), email |-> S("eve"),
     Skills |-> Str(<<>>), hourlyRate |-> S("abc"), AvailableSlots |-> S("soon")]

TaskBuild ==
    [_rowIndex |-> Num(2), TaskID |-> S("T1"), title |-> S("build"),
     RequiredSkills |-> S("React"), MaxConcurrent |-> Num(2), Duration |-> Num(2),
     PreferredPhases |-> Str(<<"[", "1", ",", "3", "]">>), clientId |-> S("C1"),
     priority |-> S("high"), deadline |-> Num(1), estimatedHours |-> Num(5)]

TaskShip ==
    [_rowIndex |-> Num(3), TaskID |-> S("t1"), title |-> Str(<<>>),
     RequiredSkills |-> Str(<<"React", ",", " ", "Python">>), ClientID |-> S("c9"),
     priority |-> S("soon"), estimatedHours |-> Str(<<>>)]

TaskTest ==
    [id |-> S("T2"), title |-> Num(7),
     requiredSkills |-> Arr(<<S("python")>>), MaxConcurrent |-> Num(1),
     Duration |-> S("3"), PreferredPhases |-> Str(<<"2", "-", "1">>),
     deadline |-> S("1970-01-01T00:00:00.001Z"), priority |-> S("low"), estimatedHours |-> Null]

\* a row whose Duration and clientId cells are empty
TaskPlan ==
    [_rowIndex |-> Num(4), TaskID |-> S("T3"), title |-> S("plan"),
     clientId |-> Str(<<>>), client_id |-> S("C9"), Duration |-> Str(<<>>),
     estimatedHours |-> Num(5), PreferredPhases |-> S("2"), priority |-> S("low")]

\* a row whose AvailableSlots cell mixes numbers and text
WorkerKim ==
    [_rowIndex |-> Num(4), name |-> S("kim"), Skills |-> S("Python"),
     AvailableSlots |-> Str(<<"1", ",", "x", ",", "3">>)]

\* a row of a sheet without an AvailableSlots column
WorkerLee ==
    [_rowIndex |-> Num(5), name |-> S("lee"), Skills |-> S("React")]

\* an object without any field
EmptyRecord == <<>>

ClientAcme ==
    [_rowIndex |-> Num(2), ClientID |-> S("C1"), ClientName |-> S("acme"),
     PriorityLevel |-> Num(3), RequestedTaskIDs |-> Str(<<"T1", ",", "T9", ",", " ", "t2">>)]

ClientBolt ==
    [_rowIndex |-> Num(3), ClientID |-> Str(<<"c1", " ">>), ClientName |-> S(" "),
     PriorityLevel |-> Num(7), budget |-> Num(500),
     RequestedTaskIDs |-> Arr(<<S("t1")>>)]

ClientCore ==
    [id |-> S("c9"), ClientID |-> Num(5), ClientName |-> S("core"),
     PriorityLevel |-> S("2"), budget |-> Num(5000), email |-> Str(<<>>),
     requestedTasks |-> Str(<<"T9", ",", "T3">>)]

\* the records a caller validates, per kind
Records(dataType) ==
    CASE dataType = "clients" -> {ClientAcme, ClientBolt, ClientCore}
      [] dataType = "workers" -> {WorkerAnn, WorkerBob, WorkerEve}
      [] OTHER -> {TaskBuild, TaskShip, TaskTest, EmptyRecord}

\* the sequences over a set, of length n
RECURSIVE SeqsOfLen(_, _)
SeqsOfLen(set, n) ==
    IF n = 0 THEN {<<>>}
    ELSE {Append(q, x) : q \in SeqsOfLen(set, n - 1), x \in set}

\* the batches a caller validates, per kind
Batches(dataType) == UNION {SeqsOfLen(Records(dataType), n) : n \in 0..MaxBatch}

\* the datasets an ingestion stores, per kind
Datasets(type) ==
    CASE type = "clients" -> {<<>>, <<ClientAcme, ClientCore>>}
      [] type = "workers" -> {<<>>, <<WorkerAnn>>, <<WorkerAnn, WorkerBob>>, <<WorkerEve>>}
      [] OTHER -> {<<>>, <<TaskBuild, TaskTest>>}

\* the rows parseFile builds from a sheet whose headers name the kind
Uploads(type) ==
    CASE type = "clients" -> {<<>>, <<ClientAcme, ClientCore>>, <<ClientBolt, ClientCore>>}
      [] type = "workers" -> {<<>>, <<WorkerAnn>>, <<WorkerAnn, WorkerBob>>}
      [] type = "tasks" -> {<<>>, <<TaskBuild>>}
      [] OTHER -> {<<WorkerLee>>}

\* values a caller passes to setData that parseFile would not
SetDataValues == {Null, S("rows"), Arr(<<EmptyRecord>>)}

\* the records validated while no API key is configured, per kind
OfflineRecords(dataType) ==
    CASE dataType = "clients" -> {ClientAcme, ClientBolt, ClientCore}
      [] dataType = "workers" -> {WorkerAnn, WorkerBob, WorkerEve, WorkerKim, WorkerLee}
      [] OTHER -> {TaskBuild, TaskShip, TaskTest, TaskPlan}

OfflineBatches(dataType) ==
    UNION {SeqsOfLen(OfflineRecords(dataType), n) : n \in 0..MaxBatch}

\* what performAIValidation can return for a record: nothing (no API key, a
\* failed call, an unparseable answer), or the findings of the model's answer
AIFinding(severity) ==
    Finding("ai", Msg("reported by the language model", <<>>), severity, <<>>)

NoAI == [errors |-> <<>>, warnings |-> <<>>, suggestions |-> <<>>]

AIOutcomes ==
    {NoAI,
     [errors |-> <<AIFinding("error")>>, warnings |-> <<>>, suggestions |-> <<>>],
     [errors |-> <<>>, warnings |-> <<AIFinding("warning")>>,
      suggestions |-> <<AIFinding("info")>>]}

\* the answers drawn for the records of a batch
BatchAIOutcomes ==
    {NoAI, [errors |-> <<AIFinding("error")>>, warnings |-> <<>>, suggestions |-> <<>>]}

\* rules an administrative caller adds
RuleBroken ==
    Rule("custom-broken", "title", "custom", CondMalformed, "Broken rule", "error", <<>>)

RuleNotes ==
    Rule("custom-notes", "notes", "custom", CondHasLength, "Notes are empty", "info",
         <<"Add a note">>)

RuleTitleHint ==
    Rule("task-title-required", "title", "custom", CondHasLength, "Title is short", "info", <<>>)

AddableRules == {RuleBroken, RuleNotes, RuleTitleHint}

RuleIds(list) == {list[i].id : i \in 1..Len(list)}

\* the updates an administrative caller assigns
RuleUpdates ==
    {[severity |-> "warning"],
     [id |-> "custom-notes"],
     [message |-> "Changed", condition |-> CondHasLength]}

\* the ids an administrative caller names in updateRule
UpdatedIds == {"task-title-required", "custom-notes", "no-such-rule"}

\* a finding whose message is told apart by a number
Issue(n, severity) == Finding("field", Msg("issue {n}", <<NumToStr(n)>>), severity, <<>>)

\* the findings numbered lo..hi
IssueRange(lo, hi, severity) == [k \in 1..(hi - lo + 1) |-> Issue(lo + k - 1, severity)]

\* a result as validateRecord builds it from its three lists
ResultOf(errors, warnings, suggestions, score) ==
    [isValid |-> Len(errors) = 0, errors |-> errors, warnings |-> warnings,
     suggestions |-> suggestions, score |-> Num(score), recordId |-> S("r"),
     recordType |-> "tasks", qualityScore |-> Num(score), validatedAt |-> 0]

\* the results a report is asked for: results with many messages, with
\* messages shared between and repeated within results, with a message that
\* is an error here and an info suggestion there, without findings, and
\* results of the record validator
ReportResults ==
    {ResultOf(IssueRange(1, 6, "error"), IssueRange(7, 8, "warning"), <<>>, 0),
     ResultOf(IssueRange(5, 9, "error"), IssueRange(10, 12, "warning"),
              <<Issue(1, "info")>>, 0),
     ResultOf(<<Issue(12, "error"), Issue(12, "error")>>, <<Issue(3, "warning")>>,
              <<>>, 50),
     ResultOf(<<>>, <<>>, <<Issue(2, "info"), Issue(2, "info")>>, 95),
     ResultOf(<<>>, <<>>, <<>>, 100),
     validateRecord(initializeDefaultRules, TaskShip, "tasks", NoAI, 0),
     validateRecord(initializeDefaultRules, ClientBolt, "clients", NoAI, 0)}

ReportInputs == UNION {SeqsOfLen(ReportResults, n) : n \in 0..MaxResults}

\* what generateRecommendations meets: no API key, a rejected call of the
\* language model, an answer that is not JSON, an answer that is a JSON array
Answers ==
    {[kind |-> "nokey"],
     [kind |-> "rejected"],
     [kind |-> "text", json |-> FALSE, value |-> <<>>],
     [kind |-> "text", json |-> TRUE, value |-> <<"advice of the language model">>]}

\* the batches of the calls that are followed step by step
FlightRecords(dataType) ==
    CASE dataType = "clients" -> {ClientAcme}
      [] dataType = "workers" -> {WorkerKim}
      [] OTHER -> {TaskBuild, TaskPlan}

FlightBatches(dataType) ==
    UNION {SeqsOfLen(FlightRecords(dataType), n) : n \in 0..MaxBatch}

\* the characters of the texts handed to parseNumberList
ListChars == {"1", "3", "-", ",", "[", "]", " ", "x"}

\* the values handed to parseNumberList: every text of up to MaxLen
\* characters, longer lists and ranges, arrays, and values that are neither
NumberListInputs ==
    {Str(s) : s \in UNION {SeqsOfLen(ListChars, n) : n \in 0..MaxLen}}
    \cup {Str(<<"[", "1", ",", "3", "]">>), Str(<<"[", "1", ",", "x", "]">>),
          Str(<<"[", "1", ",", " ", "2", "3", "]">>), Str(<<"1", ",", ",", "3">>),
          Str(<<"1", ",", "x", ",", "3">>), Str(<<"2", " ", "-", " ", "4">>),
          Str(<<"1", "0", "-", "9">>), Str(<<"9", "-", "1", "0">>),
          Str(<<"1", "-", "1", "0", "0", "0", "0", "0", "0", "0", "0", "0", "0">>),
          Arr(<<Num(1), S("3"), S("x"), Null>>), Arr(<<>>),
          Null, Undefined, Num(3), NaN}

\* the data a DataGrid of clients is mounted with
GridData == {<<ClientAcme>>, <<ClientAcme, ClientCore>>}

\* the columns of the grid
GridColumns ==
    <<[key |-> "ClientName", type |-> "text"], [key |-> "PriorityLevel", type |-> "number"]>>

\* the values typed into a cell
CellValues == {S("acme"), Str(<<>>)}

Times == 0..MaxTime

-----------------------------------------------------------------------------
(* The state machine *)

\* the two callers of parseFile whose calls may overlap
Ingestions == {"first", "second"}

\* no parseFile call of the caller is under way
NotStarted == [stage |-> "none"]

\* no DataGrid is mounted
Unmounted == [mounted |-> FALSE]

NoCall == [op |-> "none"]

Init ==
    /\ registry = [k \in DataTypes |-> <<>>]
    /\ rules = initializeDefaultRules
    /\ pc = "idle"
    /\ inp = NoCall
    /\ out = <<>>
    /\ edits = 0
    /\ last = [k \in DataTypes |-> Arr(<<>>)]
    /\ prev = NoCall
    /\ flight = NoCall
    /\ ingest = [p \in Ingestions |-> NotStarted]
    /\ grid = Unmounted

\* an ingestion stores a dataset: setData(type, data)
SetData ==
    /\ pc = "idle"
    /\ \E type \in DataTypes : \E data \in Datasets(type) :
          /\ registry' = setData(registry, type, Arr(data))
          /\ last' = [last EXCEPT ![type] = Arr(data)]
    /\ UNCHANGED <<rules, pc, inp, out, edits>>
    /\ UNCHANGED aside

\* validationEngine.addRule(dataType, rule)
AddRule ==
    /\ pc = "idle"
    /\ edits < MaxEdits
    /\ \E dataType \in DataTypes : \E rule \in AddableRules :
          rules' = addRule(rules, dataType, rule)
    /\ edits' = edits + 1
    /\ UNCHANGED <<registry, pc, inp, out, last>>
    /\ UNCHANGED aside

\* validationEngine.removeRule(dataType, ruleId)
RemoveRule ==
    /\ pc = "idle"
    /\ edits < MaxEdits
    /\ \E dataType \in DataTypes :
       \E ruleId \in RuleIds(rules[dataType]) \cup {"no-such-rule"} :
          rules' = removeRule(rules, dataType, ruleId)
    /\ edits' = edits + 1
    /\ UNCHANGED <<registry, pc, inp, out, last>>
    /\ UNCHANGED aside

\* validationEngine.updateRule(dataType, ruleId, updates)
UpdateRule ==
    /\ pc = "idle"
    /\ edits < MaxEdits
    /\ \E dataType \in DataTypes : \E ruleId \in UpdatedIds : \E updates \in RuleUpdates :
          rules' = updateRule(rules, dataType, ruleId, updates)
    /\ edits' = edits + 1
    /\ UNCHANGED <<registry, pc, inp, out, last>>
    /\ UNCHANGED aside

\* validationEngine.validateRecord(record, dataType), to its return
ValidateRecord ==
    /\ pc = "idle"
    /\ \E dataType \in DataTypes : \E record \in Records(dataType) :
       \E ai \in AIOutcomes : \E now \in Times :
          /\ inp' = [op |-> "validateRecord", record |-> record, dataType |-> dataType,
                     ai |-> ai, now |-> now]
          /\ out' = validateRecord(rules, record, dataType, ai, now)
    /\ pc' = "validateRecord"
    /\ UNCHANGED <<registry, rules, edits, last>>
    /\ UNCHANGED aside

\* validationEngine.validateBatch(records, dataType), to its return
ValidateBatch ==
    /\ pc = "idle"
    /\ \E dataType \in DataTypes : \E records \in Batches(dataType) :
       \E ai \in [1..Len(records) -> BatchAIOutcomes] : \E now \in Times :
          /\ inp' = [op |-> "validateBatch", records |-> records, dataType |-> dataType,
                     ai |-> ai, now |-> now]
          /\ out' = validateBatch(registry, rules, records, dataType, ai, now)
    /\ pc' = "validateBatch"
    /\ UNCHANGED <<registry, rules, edits, last>>
    /\ UNCHANGED aside

\* parseFile, to its return: the rows of the sheet are stored under the kind
\* its headers name, and nowhere when the kind is "unknown"
ParseFile ==
    /\ pc = "idle"
    /\ \E type \in DataTypes \cup {"unknown"} : \E data \in Uploads(type) :
          IF type # "unknown"
          THEN /\ registry' = setData(registry, type, Arr(data))
               /\ last' = [last EXCEPT ![type] = Arr(data)]
          ELSE UNCHANGED <<registry, last>>
    /\ UNCHANGED <<rules, pc, inp, out, edits>>
    /\ UNCHANGED aside

\* the validated batch is also stored as the collection of its kind
ValidateBatchStoring ==
    /\ pc = "idle"
    /\ \E dataType \in DataTypes : \E records \in OfflineBatches(dataType) :
       \E now \in Times :
          /\ inp' = [op |-> "validateBatch", records |-> records, dataType |-> dataType,
                     ai |-> [i \in 1..Len(records) |-> NoAI], now |-> now]
          /\ out' = validateBatch(registry, rules, records, dataType,
                                  [i \in 1..Len(records) |-> NoAI], now)
          /\ registry' = setData(registry, dataType, Arr(records))
    /\ pc' = "validateBatch"
    /\ UNCHANGED <<rules, edits, last>>
    /\ UNCHANGED aside

\* validationEngine.validateBatch(records, dataType) while no API key is
\* configured: performAIValidation returns its three empty lists
ValidateBatchNoKey ==
    /\ pc = "idle"
    /\ \E dataType \in DataTypes : \E records \in OfflineBatches(dataType) :
       \E now \in Times :
          /\ inp' = [op |-> "validateBatch", records |-> records, dataType |-> dataType,
                     ai |-> [i \in 1..Len(records) |-> NoAI], now |-> now]
          /\ out' = validateBatch(registry, rules, records, dataType,
                                  [i \in 1..Len(records) |-> NoAI], now)
    /\ pc' = "validateBatch"
    /\ UNCHANGED <<registry, rules, edits, last>>
    /\ UNCHANGED aside

\* setData(type, data) called with any value, an array or not
SetDataAny ==
    /\ pc = "idle"
    /\ \E type \in DataTypes : \E data \in SetDataValues :
          /\ registry' = setData(registry, type, data)
          /\ last' = [last EXCEPT ![type] = data]
    /\ UNCHANGED <<rules, pc, inp, out, edits>>
    /\ UNCHANGED aside

\* getData(type), to its return
GetData ==
    /\ pc = "idle"
    /\ \E type \in DataTypes :
          /\ inp' = [op |-> "getData", type |-> type]
          /\ out' = getData(registry, type)
    /\ pc' = "getData"
    /\ UNCHANGED <<registry, rules, edits, last>>
    /\ UNCHANGED aside

\* validationEngine.generateValidationReport(results), to its return
GenerateValidationReport ==
    /\ pc = "idle"
    /\ \E results \in ReportInputs : \E answer \in Answers :
          /\ inp' = [op |-> "generateValidationReport", results |-> results,
                     answer |-> answer]
          /\ out' = ReportCall(results, answer)
    /\ pc' = "generateValidationReport"
    /\ UNCHANGED <<registry, rules, edits, last>>
    /\ UNCHANGED aside

\* generateValidationReport called with the results validateBatch returned
ReportOnBatch ==
    /\ pc = "validateBatch"
    /\ \E answer \in Answers :
          /\ inp' = [op |-> "generateValidationReport", results |-> out,
                     answer |-> answer]
          /\ out' = ReportCall(out, answer)
    /\ pc' = "generateValidationReport"
    /\ UNCHANGED <<registry, rules, edits, last>>
    /\ UNCHANGED aside

\* validateBatch called a second time, at the same moment or later, with the
\* batch and kind of the call that just returned, no setData and no catalog
\* mutation in between
ValidateBatchAgain ==
    /\ pc = "validateBatch"
    /\ \E now \in Times :
          /\ now >= inp.now
          /\ inp' = [inp EXCEPT !.now = now]
          /\ out' = validateBatch(registry, rules, inp.records, inp.dataType, inp.ai, now)
    /\ prev' = [inp |-> inp, out |-> out]
    /\ pc' = "validateBatchAgain"
    /\ UNCHANGED <<registry, rules, edits, last, ingest, flight, grid>>

\* a validateRecord promise that has not settled
Pending == [pending |-> TRUE]

\* Promise.all without the await: the call goes on at once
NotAwaited(results) == TRUE

\* await Promise.all(...): every validateRecord promise has settled
AllSettled(results) == \A i \in DOMAIN results : results[i] # Pending

\* the registry states the reads of the cross-record phase would observe if
\* the phase gave way to other tasks after its client-reference checks:
\* the first is a state with the clients of an earlier moment
ReadStatesYielding(clientsBefore, current) ==
    [k \in 1..4 |-> IF k = 1 THEN [current EXCEPT !.clients = clientsBefore]
                     ELSE current]

\* the registry states observed by the getData calls of the cross-record
\* phase, in their order: those of isValidClientReference (clients), then
\* workers, tasks and clients; the phase has no await, so all are the state
\* at the time it runs
ReadStates(clientsBefore, current) == [k \in 1..4 |-> current]

\* the collections the cross-record phase works with, from what its reads
\* observed: clients is read by isValidClientReference for a batch of tasks
\* and by the RequestedTaskIDs check for a batch of clients
CollectionsRead(reads, dataType) ==
    [clients |-> IF dataType = "tasks" THEN reads[1].clients ELSE reads[4].clients,
     workers |-> reads[2].workers,
     tasks |-> reads[3].tasks]

\* validateBatch is called: records.map starts a validateRecord per record,
\* each of which waits for performAIValidation; the clock stands at 0, it
\* plays no part in the order of the steps
StartValidateBatch ==
    /\ pc = "idle"
    /\ flight = NoCall
    /\ \E dataType \in DataTypes : \E records \in FlightBatches(dataType) :
          flight' = [op |-> "validateBatch", records |-> records, dataType |-> dataType,
                     now |-> 0, clientsBefore |-> registry.clients,
                     results |-> [i \in 1..Len(records) |-> Pending],
                     phase |-> "records", reads |-> <<>>, cross |-> <<>>]
    /\ UNCHANGED <<registry, rules, pc, inp, out, edits, last, prev, ingest, grid>>

\* one validateRecord promise settles, in any order; without an API key
\* performAIValidation returned no findings
ValidateRecordSettles ==
    /\ flight # NoCall
    /\ flight.phase = "records"
    /\ \E i \in DOMAIN flight.results :
          /\ flight.results[i] = Pending
          /\ flight' = [flight EXCEPT !.results[i] =
                           validateRecord(rules, flight.records[i], flight.dataType,
                                          NoAI, flight.now)]
    /\ UNCHANGED <<registry, rules, pc, inp, out, edits, last, prev, ingest, grid>>

\* after the await of Promise.all, performCrossRecordValidation runs from its
\* first to its last statement
CrossRecordPhase ==
    /\ flight # NoCall
    /\ flight.phase = "records"
    /\ AllSettled(flight.results)
    /\ LET reads == ReadStates(flight.clientsBefore, registry)
       IN  flight' = [flight EXCEPT
                        !.phase = "cross",
                        !.reads = reads,
                        !.cross = performCrossRecordValidation(
                                     CollectionsRead(reads, flight.dataType),
                                     flight.records, flight.dataType, flight.now)]
    /\ UNCHANGED <<registry, rules, pc, inp, out, edits, last, prev, ingest, grid>>

\* after the await of the cross-record phase its results are merged into
\* the per-record results wherever one exists, and validateBatch returns
MergeCrossResults ==
    /\ pc = "idle"
    /\ flight # NoCall
    /\ flight.phase = "cross"
    /\ flight' = [flight EXCEPT !.phase = "merged"]
    /\ inp' = [op |-> "validateBatch", records |-> flight.records,
               dataType |-> flight.dataType, now |-> flight.now]
    /\ out' = [i \in DOMAIN flight.results |->
                 IF flight.results[i] = Pending THEN Pending
                 ELSE MergeResult(flight.results[i], flight.cross[i])]
    /\ pc' = "validateBatchSteps"
    /\ UNCHANGED <<registry, rules, edits, last, ingest, prev, grid>>

\* what parseFile returns when it stored nothing: type "unknown", no data
Rejected(overlapped) ==
    [stage |-> "returned", type |-> "unknown", data |-> <<>>, stored |-> FALSE,
     overlapped |-> overlapped]

\* parseFile(file) is called: a file with an unsupported extension is
\* rejected at once, any other is read (await file.text() / arrayBuffer());
\* overlapped records whether another call was under way
ParseFileStart(p) ==
    /\ ingest[p].stage = "none"
    /\ LET overlapped ==
              \E q \in Ingestions \ {p} : ingest[q].stage \in {"reading", "validating"}
       IN  \/ ingest' = [ingest EXCEPT ![p] = Rejected(overlapped)]
           \/ \E type \in DataTypes \cup {"unknown"} : \E data \in Uploads(type) :
                 ingest' = [ingest EXCEPT ![p] =
                              [stage |-> "reading", type |-> type, data |-> data,
                               stored |-> FALSE, overlapped |-> overlapped]]
    /\ UNCHANGED <<registry, rules, pc, inp, out, edits, last, prev, flight, grid>>

\* the file has been read: reading or XLSX.read threw, or the sheet is
\* empty, and parseFile returns type "unknown"; or the rows are built, the
\* kind is detected and validateDataWithAI is awaited
ParseFileRead(p) ==
    /\ ingest[p].stage = "reading"
    /\ \/ ingest' = [ingest EXCEPT ![p] = Rejected(ingest[p].overlapped)]
       \/ ingest' = [ingest EXCEPT ![p].stage = "validating"]
    /\ UNCHANGED <<registry, rules, pc, inp, out, edits, last, prev, flight, grid>>

\* validateDataWithAI has returned (it catches its own errors): the rows are
\* stored under the detected kind, unless it is "unknown", and parseFile
\* returns
ParseFileStore(p) ==
    /\ ingest[p].stage = "validating"
    /\ IF ingest[p].type # "unknown"
       THEN /\ registry' = setData(registry, ingest[p].type, Arr(ingest[p].data))
            /\ last' = [last EXCEPT ![ingest[p].type] = Arr(ingest[p].data)]
            /\ ingest' = [ingest EXCEPT ![p].stage = "returned", ![p].stored = TRUE]
       ELSE /\ ingest' = [ingest EXCEPT ![p].stage = "returned"]
            /\ UNCHANGED <<registry, last>>
    /\ UNCHANGED <<rules, pc, inp, out, edits, prev, flight, grid>>

\* the caller of parseFile has consumed what it returned
ParseFileReturn(p) ==
    /\ ingest[p].stage = "returned"
    /\ ingest' = [ingest EXCEPT ![p] = NotStarted]
    /\ UNCHANGED <<registry, rules, pc, inp, out, edits, last, prev, flight, grid>>

\* parseNumberList(input), to its end
ParseNumberList ==
    /\ pc = "idle"
    /\ \E input \in NumberListInputs :
          /\ inp' = [op |-> "parseNumberList", input |-> input]
          /\ out' = ParseNumberListCall(input)
    /\ pc' = "parseNumberList"
    /\ UNCHANGED <<registry, rules, edits, last>>
    /\ UNCHANGED aside

\* the effect on [localData]: validateData starts a validateBatch call on
\* the data, unless there are no rows
validateData(inflight, localData) ==
    IF Len(localData) > 0 THEN Append(inflight, localData) ELSE inflight

\* the row handleAddRow builds: "" for a text column, 0 for a number column,
\* and an id from the clock
NewRow ==
    [key \in {GridColumns[k].key : k \in DOMAIN GridColumns} \cup {"id"} |->
        IF key = "id" THEN S("new-0")
        ELSE LET col == CHOOSE c \in {GridColumns[k] : k \in DOMAIN GridColumns} : c.key = key
             IN  IF col.type = "number" THEN Num(0)
                 ELSE IF col.type = "multiselect" THEN Arr(<<>>)
                 ELSE Str(<<>>)]

\* localData.filter((_, index) => keep index)
Remaining(localData, removed) ==
    LET Keep(k) == k \notin removed
        kept == SelectSeq([k \in 1..Len(localData) |-> k], Keep)
    IN  [k \in 1..Len(kept) |-> localData[kept[k]]]

\* setLocalData(newData) and the effect that follows the render
SetLocalData(newData) ==
    /\ grid.mounted
    /\ Len(grid.inflight) < MaxInFlight
    /\ grid' = [grid EXCEPT !.localData = newData,
                            !.inflight = validateData(@, newData)]
    /\ UNCHANGED <<registry, rules, pc, inp, out, edits, last, prev, flight, ingest>>

\* the component is mounted with its data; the effect validates it
GridMount ==
    /\ ~grid.mounted
    /\ \E data \in GridData :
          grid' = [mounted |-> TRUE, localData |-> data, validationResults |-> <<>>,
                   inflight |-> validateData(<<>>, data), overtaken |-> FALSE]
    /\ UNCHANGED <<registry, rules, pc, inp, out, edits, last, prev, flight, ingest>>

\* handleCellEdit, typing, handleCellSave: { ...row, [columnKey]: value }
HandleCellSave ==
    /\ grid.mounted
    /\ \E rowIndex \in 1..Len(grid.localData) : \E value \in CellValues :
          SetLocalData([grid.localData EXCEPT ![rowIndex] =
                           Assign(@, [ClientName |-> value])])

\* handleRowDelete(rowIndex)
HandleRowDelete ==
    /\ grid.mounted
    /\ \E rowIndex \in 1..Len(grid.localData) :
          SetLocalData(Remaining(grid.localData, {rowIndex}))

\* handleBulkDelete with the selected rows
HandleBulkDelete ==
    /\ grid.mounted
    /\ \E selectedRows \in SUBSET (1..Len(grid.localData)) :
          /\ Cardinality(selectedRows) >= 2
          /\ SetLocalData(Remaining(grid.localData, selectedRows))

\* handleAddRow
HandleAddRow ==
    /\ grid.mounted
    /\ Len(grid.localData) < MaxRows
    /\ SetLocalData(Append(grid.localData, NewRow))

\* a validateBatch call of validateData returns, whichever of those under
\* way, and its results are stored; overtaken records that an earlier call
\* was still under way
ValidationReturns ==
    /\ grid.mounted
    /\ \E k \in 1..Len(grid.inflight) :
          grid' = [grid EXCEPT
                         !.validationResults =
                            validateBatch(registry, rules, grid.inflight[k], "clients",
                                          [i \in 1..Len(grid.inflight[k]) |-> NoAI], 0),
                         !.inflight = Remaining(@, {k}),
                         !.overtaken = @ \/ k # 1]
    /\ UNCHANGED <<registry, rules, pc, inp, out, edits, last, prev, flight, ingest>>

\* the caller has consumed the result
Return ==
    /\ pc # "idle"
    /\ pc' = "idle"
    /\ inp' = NoCall
    /\ out' = <<>>
    /\ prev' = NoCall
    /\ flight' = NoCall
    /\ UNCHANGED <<registry, rules, edits, last, ingest, grid>>

\* the rule catalog and the record validator
Next == AddRule \/ RemoveRule \/ ValidateRecord \/ Return

Spec == Init /\ [][Next]_vars

\* the registry and the batch validator, on the default catalog
NextBatch == SetData \/ ValidateBatch \/ Return

SpecBatch == Init /\ [][NextBatch]_vars

\* ingestion and the cross-record checks, without a language model
NextCross == ParseFile \/ ValidateBatchNoKey \/ Return

SpecCross == Init /\ [][NextCross]_vars

\* the rule catalog on its own
NextCatalog == AddRule \/ RemoveRule \/ UpdateRule

SpecCatalog == Init /\ [][NextCatalog]_vars

\* the report generator on its own
NextReport == GenerateValidationReport \/ Return

SpecReport == Init /\ [][NextReport]_vars

\* the registry on its own: its writers and getData
NextRegistry == ParseFile \/ SetDataAny \/ GetData \/ Return

SpecRegistry == Init /\ [][NextRegistry]_vars

\* ingestion next to the three operations that read the registry or the
\* results
NextReaders ==
    \/ ParseFile
    \/ ValidateRecord
    \/ ValidateBatchNoKey
    \/ ReportOnBatch
    \/ Return

SpecReaders == Init /\ [][NextReaders]_vars

\* ingestion and validateBatch called twice in a row, without a language model
NextTwice == ParseFile \/ ValidateBatchNoKey \/ ValidateBatchAgain \/ Return

SpecTwice == Init /\ [][NextTwice]_vars

\* one validateBatch call followed step by step while ingestions store
\* datasets
NextFlight ==
    \/ ParseFile
    \/ StartValidateBatch
    \/ ValidateRecordSettles
    \/ CrossRecordPhase
    \/ MergeCrossResults
    \/ Return

SpecFlight == Init /\ [][NextFlight]_vars

\* two callers of parseFile whose calls overlap
NextIngest ==
    \E p \in Ingestions :
        \/ ParseFileStart(p)
        \/ ParseFileRead(p)
        \/ ParseFileStore(p)
        \/ ParseFileReturn(p)

SpecIngest == Init /\ [][NextIngest]_vars

\* the number-list parser on its own
NextParse == ParseNumberList \/ Return

SpecParse == Init /\ [][NextParse]_vars

\* a DataGrid of clients and its user
NextGrid ==
    \/ GridMount
    \/ HandleCellSave
    \/ HandleRowDelete
    \/ HandleBulkDelete
    \/ HandleAddRow
    \/ ValidationReturns

SpecGrid == Init /\ [][NextGrid]_vars

-----------------------------------------------------------------------------
(* Properties of the record validator, checked under Spec *)

Returned(op) == pc = op

\* what running rule i of the called kind's list gives on the validated record
Verdict(i) ==
    LET rule == rules[inp.dataType][i]
    IN  RunCondition(rule.condition, Get(inp.record, rule.field), inp.now)

\* the rules of the called kind whose predicate evaluated to a falsy value
FailedRules == {i \in 1..Len(rules[inp.dataType]) : Verdict(i) = "F"}

\* the rules of the called kind whose evaluation threw
ThrowingRules == {i \in 1..Len(rules[inp.dataType]) : Verdict(i) = "throw"}

RECURSIVE Ascending(_)
\* the members of a finite set of numbers, smallest first
Ascending(set) ==
    IF set = {} THEN <<>>
    ELSE LET m == CHOOSE x \in set : \A y \in set : x <= y
         IN  <<m>> \o Ascending(set \ {m})

\* the findings the failed rules of a severity class give, in rule order
ExpectedFindings(severities) ==
    LET idx == Ascending({i \in FailedRules : rules[inp.dataType][i].severity \in severities})
    IN  [k \in 1..Len(idx) |->
            LET rule == rules[inp.dataType][idx[k]]
            IN  [field |-> rule.field, message |-> [text |-> rule.message, args |-> <<>>],
                 severity |-> rule.severity, suggestions |-> rule.fixSuggestion]]

\* C2: validateRecord returns isValid == true exactly when its errors list is
\* empty, and that is exactly when no failed rule has severity error and the
\* AI answer holds no error: warning and info findings never invalidate
C2_IsValidIffNoErrors ==
    Returned("validateRecord") =>
        /\ out.isValid <=> (Len(out.errors) = 0)
        /\ out.isValid <=>
              /\ \A i \in FailedRules : rules[inp.dataType][i].severity # "error"
              /\ inp.ai.errors = <<>>

\* a valid result that carries warnings and info suggestions
C2_Witness ==
    /\ Returned("validateRecord")
    /\ out.isValid
    /\ \E i \in FailedRules : rules[inp.dataType][i].severity = "warning"
    /\ \E i \in FailedRules : rules[inp.dataType][i].severity = "info"

\* C4: the quality score validateRecord returns is an integer in [0, 100],
\* for every record, the record without fields included
C4_ScoreInRange ==
    Returned("validateRecord") => (out.score.t = "number" /\ out.score.v \in 0..100)

\* C5: for a record with at least one field the score is
\* clamp(0, 100, round(100 - 20*#errors - 10*#warnings - 5*#suggestions
\* + 10*nonEmpty/fields)), stated with round(x) as the integer r with
\* r - 1/2 <= x < r + 1/2; a record without findings scores 100
C5_ScoreFormula ==
    Returned("validateRecord") /\ DOMAIN inp.record # {} =>
        LET f == Cardinality(DOMAIN inp.record)
            n == Cardinality({k \in DOMAIN inp.record :
                     inp.record[k].t \notin {"null", "undefined"}
                     /\ ~(inp.record[k].t = "string" /\ Len(inp.record[k].v) = 0)})
            e == Len(out.errors)
            w == Len(out.warnings)
            g == Len(out.suggestions)
            \* 2f times the unrounded score
            x2f == 2 * f * (100 - 20 * e - 10 * w - 5 * g) + 20 * n
        IN  /\ \E r \in -400..200 :
                  /\ 2 * f * r - f <= x2f
                  /\ x2f < 2 * f * r + f
                  /\ out.score = Num(IF r < 0 THEN 0 ELSE IF r > 100 THEN 100 ELSE r)
            /\ (e = 0 /\ w = 0 /\ g = 0) => out.score = Num(100)
            /\ out.qualityScore = out.score

\* a score strictly inside the range, with findings, a partly filled record
\* and a bonus that rounding changes
C5_Witness ==
    /\ Returned("validateRecord")
    /\ DOMAIN inp.record # {}
    /\ out.score.t = "number" /\ out.score.v \in 1..99
    /\ Len(out.warnings) > 0
    /\ LET f == Cardinality(DOMAIN inp.record)
           n == Cardinality({k \in DOMAIN inp.record :
                    inp.record[k] \notin {Null, Undefined, Str(<<>>)}})
       IN  n < f /\ (10 * n) % f # 0

\* C6: a rule whose evaluation throws counts as passed and emits nothing, the
\* rules after it are still evaluated, and every rule whose predicate is false
\* yields exactly one finding, in rule order, in the list of its severity
C6_FailOpen ==
    Returned("validateRecord") =>
        /\ out.errors = ExpectedFindings({"error"}) \o inp.ai.errors
        /\ out.warnings = ExpectedFindings({"warning"}) \o inp.ai.warnings
        /\ out.suggestions = ExpectedFindings({"info"}) \o inp.ai.suggestions
        /\ Len(out.errors) + Len(out.warnings) + Len(out.suggestions)
              = Cardinality(FailedRules) + Len(inp.ai.errors) + Len(inp.ai.warnings)
                + Len(inp.ai.suggestions)

\* a malformed rule and a rule run on a value of the wrong type both throw,
\* and a rule after them fails and is reported
C6_Witness ==
    /\ Returned("validateRecord")
    /\ \E i \in ThrowingRules : rules[inp.dataType][i].condition.k = "malformed"
    /\ \E i \in ThrowingRules : rules[inp.dataType][i].condition.k = "required"
    /\ \E i \in ThrowingRules : \E j \in FailedRules : i < j

-----------------------------------------------------------------------------
(* Properties of the batch validator, checked under SpecBatch *)

Batch == inp.records

\* C1: every result of validateBatch has isValid == (errors.length == 0)
\* after the cross-record findings are merged
C1_BatchIsValidIffNoErrors ==
    Returned("validateBatch") =>
        \A i \in 1..Len(out) : out[i].isValid <=> (Len(out[i].errors) = 0)

RegistrySkills ==
    UNION {{WorkerSkills(registry.workers[w])[k] :
               k \in 1..Len(WorkerSkills(registry.workers[w]))} :
           w \in 1..Len(registry.workers)}

RequiredSkillsOf(t) ==
    parseStringList(Coalesce(Get(t, "RequiredSkills"), Get(t, "requiredSkills")))

\* the findings of a list that are about a field
About(list, field) == {k \in 1..Len(list) : list[k].field = field}

\* C7: with a non-empty workers collection, whatever the registry's tasks
\* collection holds, a task with an uncovered required skill gets exactly one
\* RequiredSkills error listing exactly the missing skills, a covered task none
C7_SkillCoverage ==
    Returned("validateBatch") /\ inp.dataType = "tasks" /\ Len(registry.workers) > 0 =>
        \A i \in 1..Len(Batch) :
            LET skills == RequiredSkillsOf(Batch[i])
                Missing(sk) == toLowerCase(sk) \notin RegistrySkills
                missing == SelectSeq(skills, Missing)
                found == About(out[i].errors, "RequiredSkills")
            IN  IF missing = <<>> THEN found = {}
                ELSE /\ Cardinality(found) = 1
                     /\ \A k \in found :
                           out[i].errors[k].message.args = <<Join(missing, <<",", " ">>)>>

\* the workers of the registry that have every required skill of task t
QualifiedWorkers(t) ==
    {w \in 1..Len(registry.workers) :
        \A k \in 1..Len(RequiredSkillsOf(t)) :
            \E j \in 1..Len(WorkerSkills(registry.workers[w])) :
                WorkerSkills(registry.workers[w])[j] = toLowerCase(RequiredSkillsOf(t)[k])}

\* C8: with a non-empty workers collection a task gets a MaxConcurrent error
\* exactly when its MaxConcurrent (1 when absent) exceeds the number of
\* qualified workers, and the message states both numbers
C8_MaxConcurrent ==
    Returned("validateBatch") /\ inp.dataType = "tasks" /\ Len(registry.workers) > 0 =>
        \A i \in 1..Len(Batch) :
            LET raw == Coalesce(Get(Batch[i], "MaxConcurrent"), Get(Batch[i], "maxConcurrent"))
                maxConc == IF IsNullish(raw) THEN Num(1) ELSE ToNumber(raw)
                qualified == Cardinality(QualifiedWorkers(Batch[i]))
                found == About(out[i].errors, "MaxConcurrent")
            IN  IF maxConc.t = "number" /\ maxConc.v > qualified
                THEN /\ Cardinality(found) = 1
                     /\ \A k \in found :
                           out[i].errors[k].message.args
                              = <<NumToStr(maxConc.v), NumToStr(qualified)>>
                ELSE found = {}

\* the identifiers of the registry's tasks, lower-cased
KnownTaskIds ==
    {toLowerCase(ToStr(Coalesce(Get(registry.tasks[k], "TaskID"),
                       Coalesce(Get(registry.tasks[k], "id"),
                       Coalesce(Get(registry.tasks[k], "title"), Str(<<>>))))))
        : k \in 1..Len(registry.tasks)} \ {<<>>}

\* C9: with a non-empty tasks collection a client with unknown requested
\* task IDs gets exactly one RequestedTaskIDs error that lists them all, a
\* client whose requested IDs are all known gets none
C9_RequestedTaskIds ==
    Returned("validateBatch") /\ inp.dataType = "clients" /\ Len(registry.tasks) > 0 =>
        \A i \in 1..Len(Batch) :
            LET ids == parseStringList(Coalesce(Get(Batch[i], "RequestedTaskIDs"),
                                       Coalesce(Get(Batch[i], "requestedTasks"),
                                                Get(Batch[i], "tasks"))))
                Unknown(id) == toLowerCase(id) \notin KnownTaskIds
                unknown == SelectSeq(ids, Unknown)
                found == About(out[i].errors, "RequestedTaskIDs")
            IN  IF unknown = <<>> THEN found = {}
                ELSE /\ Cardinality(found) = 1
                     /\ \A k \in found :
                           out[i].errors[k].message.args = <<Join(unknown, <<",", " ">>)>>

\* C10: while the clients collection is empty, validating tasks produces no
\* "Referenced client does not exist" error, whatever reference a task carries
C10_NoClientsNoReferenceError ==
    Returned("validateBatch") /\ inp.dataType = "tasks" /\ Len(registry.clients) = 0 =>
        \A i \in 1..Len(Batch) : \A k \in 1..Len(out[i].errors) :
            out[i].errors[k].message.text # "Referenced client does not exist"

-----------------------------------------------------------------------------
(* Properties of the cross-record checks, checked under SpecCross *)

\* a value that is there: neither undefined, null nor the empty text
IsPresent(v) == ~IsNullish(v) /\ v # Str(<<>>)

\* the client reference a task carries: the first of clientId, ClientID and
\* client_id that is present, or undefined
ClientRefOf(t) ==
    IF IsPresent(Get(t, "clientId")) THEN Get(t, "clientId")
    ELSE IF IsPresent(Get(t, "ClientID")) THEN Get(t, "ClientID")
    ELSE IF IsPresent(Get(t, "client_id")) THEN Get(t, "client_id")
    ELSE Undefined

\* some client of the registry has an id, ClientID or clientId equal to the
\* reference, letter case apart
KnownClient(ref) ==
    \E c \in 1..Len(registry.clients) : \E k \in {"id", "ClientID", "clientId"} :
        /\ k \in DOMAIN registry.clients[c]
        /\ toLowerCase(ToStr(registry.clients[c][k])) = toLowerCase(ToStr(ref))

\* the errors of result i that say the referenced client does not exist
ClientRefFindings(i) ==
    {k \in 1..Len(out[i].errors) :
        /\ out[i].errors[k].field = "clientId"
        /\ out[i].errors[k].message.text = "Referenced client does not exist"}

\* C11: with a non-empty clients collection a task gets the clientId error
\* "Referenced client does not exist" exactly when it carries a client
\* reference and no client of the registry has an id, ClientID or clientId
\* equal to it case-insensitively; a task without a reference never gets it
C11_ClientReference ==
    Returned("validateBatch") /\ inp.dataType = "tasks" /\ Len(registry.clients) > 0 =>
        \A i \in 1..Len(Batch) :
            LET ref == ClientRefOf(Batch[i])
            IN  IF ref # Undefined /\ ~KnownClient(ref)
                THEN Cardinality(ClientRefFindings(i)) = 1
                ELSE ClientRefFindings(i) = {}

\* one batch against a non-empty clients collection in which a task with an
\* unknown reference gets the error and a task whose reference, found under
\* its third alias, matches a client only when letter case is ignored gets none
C11_Witness ==
    /\ Returned("validateBatch") /\ inp.dataType = "tasks" /\ Len(registry.clients) > 0
    /\ \E i \in 1..Len(Batch) :
          ClientRefOf(Batch[i]) # Undefined /\ Cardinality(ClientRefFindings(i)) = 1
    /\ \E i \in 1..Len(Batch) :
          /\ ClientRefOf(Batch[i]) = Get(Batch[i], "client_id")
          /\ ClientRefOf(Batch[i]) # Undefined
          /\ ClientRefFindings(i) = {}
          /\ ~isValidClientReferenceExact(registry, ClientRefOf(Batch[i]))

\* the value of a key field, trimmed and case-folded
Folded(record, field) == trim(toLowerCase(ToStr(Get(record, field))))

\* the key fields of the kind of the validated batch
KeyFieldsOf(dataType) ==
    CASE dataType = "clients" -> {"id", "ClientID", "email", "name", "ClientName"}
      [] dataType = "workers" -> {"id", "email", "name"}
      [] OTHER -> {"id", "TaskID", "TaskName"}

\* the duplicate warnings of result i that name field f
DuplicateFindings(i, f) ==
    {k \in 1..Len(out[i].warnings) :
        /\ out[i].warnings[k].field = f
        /\ out[i].warnings[k].message.text
              = "Duplicate {field}: \"{value}\" found in multiple records"}

Members(list) == {list[k] : k \in 1..Len(list)}

\* the phases in which worker w is available
SlotsOf(w) ==
    Members(parseNumberList(Coalesce(Get(w, "AvailableSlots"), Get(w, "availableSlots"))))

\* MaxLoadPerPhase of worker w, 1 when absent
LoadOf(w) ==
    LET raw == Coalesce(Get(w, "MaxLoadPerPhase"), Get(w, "maxLoadPerPhase"))
    IN  IF IsNullish(raw) \/ ~IsFinite(ToNumber(raw)) THEN 1 ELSE ToNumber(raw).v

RECURSIVE SumLoads(_, _)
\* the sum of LoadOf over the workers of a list that are available in phase p
SumLoads(workers, p) ==
    IF workers = <<>> THEN 0
    ELSE (IF p \in SlotsOf(Head(workers)) THEN LoadOf(Head(workers)) ELSE 0)
         + SumLoads(Tail(workers), p)

\* capacity(p) over the workers of the registry
CapacityOf(p) == SumLoads(registry.workers, p)

\* the preferred phases of a task
PhasesOf(t) ==
    Members(parseNumberList(Coalesce(Get(t, "PreferredPhases"), Get(t, "preferredPhases"))))

\* the findings of a list of result i that are about phase p
PhaseFindings(list, p) ==
    {k \in 1..Len(list) :
        /\ list[k].field = "PreferredPhases"
        /\ list[k].message.text
              = "Phase {p} demand ({duration}) may exceed worker capacity ({cap})"
        /\ list[k].message.args[1] = NumToStr(p)}

\* C13: with a non-empty workers collection, whatever the registry's tasks
\* collection holds, a task gets a PreferredPhases finding for a phase p of
\* its PreferredPhases exactly when its Duration exceeds capacity(p); the
\* finding is a warning, never an error, and does not change isValid
C13_PhaseSaturation ==
    Returned("validateBatch") /\ inp.dataType = "tasks" /\ Len(registry.workers) > 0 =>
        \A i \in 1..Len(Batch) : \A p \in PhasesOf(Batch[i]) :
            LET duration == ToNumber(Get(Batch[i], "Duration"))
                exceeds == IsFinite(duration) /\ duration.v > CapacityOf(p)
                own == validateRecord(rules, Batch[i], inp.dataType, inp.ai[i], inp.now)
            IN  /\ PhaseFindings(out[i].errors, p) = {}
                /\ IF exceeds
                   THEN /\ Cardinality(PhaseFindings(out[i].warnings, p)) = 1
                        /\ \A k \in PhaseFindings(out[i].warnings, p) :
                              out[i].warnings[k].severity = "warning"
                        /\ out[i].isValid = own.isValid
                   ELSE PhaseFindings(out[i].warnings, p) = {}

\* C13 where the registry also holds tasks
C13_WhenTasksStored ==
    Len(registry.tasks) > 0 => C13_PhaseSaturation

\* a task whose Duration exceeds the capacity of one preferred phase and
\* equals that of another, with two workers adding up
C13_Reached ==
    /\ Returned("validateBatch") /\ inp.dataType = "tasks" /\ Len(registry.workers) > 1
    /\ \E i \in 1..Len(Batch) : \E p, q \in PhasesOf(Batch[i]) :
          /\ Cardinality(PhaseFindings(out[i].warnings, p)) = 1
          /\ PhaseFindings(out[i].warnings, q) = {}
          /\ ToNumber(Get(Batch[i], "Duration")) = Num(CapacityOf(q))
          /\ CapacityOf(q) > 1

\* a value that gives a number: it is there and parses to a finite number
IsUsableNumber(v) == IsPresent(v) /\ IsFinite(ToNumber(v))

\* the errors of result i about a field
ErrorsAbout(i, field) == {k \in 1..Len(out[i].errors) : out[i].errors[k].field = field}

\* C14: whatever the registry holds, a task gets the Duration error exactly
\* when its duration value, taken from Duration and from estimatedHours when
\* Duration gives no usable value, does not parse to a finite number >= 1; a
\* task with no usable Duration but estimatedHours >= 1 gets no Duration error
C14_DurationFallback ==
    Returned("validateBatch") /\ inp.dataType = "tasks" =>
        \A i \in 1..Len(Batch) :
            LET value == IF IsUsableNumber(Get(Batch[i], "Duration"))
                         THEN Get(Batch[i], "Duration")
                         ELSE Get(Batch[i], "estimatedHours")
                good == IsUsableNumber(value) /\ ToNumber(value).v >= 1
            IN  IF good THEN ErrorsAbout(i, "Duration") = {}
                ELSE Cardinality(ErrorsAbout(i, "Duration")) = 1

\* C14 where estimatedHours stands in only for a Duration that is missing or
\* null
C14_WhenDurationAbsent ==
    Returned("validateBatch") /\ inp.dataType = "tasks" =>
        \A i \in 1..Len(Batch) :
            LET value == IF IsNullish(Get(Batch[i], "Duration"))
                         THEN Get(Batch[i], "estimatedHours")
                         ELSE Get(Batch[i], "Duration")
                good == IsUsableNumber(value) /\ ToNumber(value).v >= 1
            IN  IF good THEN ErrorsAbout(i, "Duration") = {}
                ELSE Cardinality(ErrorsAbout(i, "Duration")) = 1

\* the elements a list value is written with, before any is dropped: those
\* of an array or of a JSON array text, the numbers of a range, or the
\* non-empty pieces between commas
ListItems(v) ==
    IF v.t = "array" THEN v.v
    ELSE IF v.t = "string"
    THEN LET trimmed == trim(v.v)
             isJson == trimmed # <<>> /\ Head(trimmed) = "[" /\ trimmed[Len(trimmed)] = "]"
             arr == JsonParseArray(trimmed)
             range == RangeMatch(trimmed)
             parts == SelectSeq(SplitComma(SelectSeq(trimmed, NotBracket)), NonEmptyStr)
         IN  IF isJson /\ arr.ok THEN arr.v
             ELSE IF range.ok /\ range.a <= range.b
             THEN [k \in 1..(range.b - range.a + 1) |-> Num(range.a + k - 1)]
             ELSE [k \in 1..Len(parts) |-> Str(parts[k])]
    ELSE <<>>

\* a non-empty list made only of finite numbers
IsNumberList(v) ==
    /\ Len(ListItems(v)) > 0
    /\ \A k \in 1..Len(ListItems(v)) : IsFinite(ToNumber(ListItems(v)[k]))

\* C15: a worker whose AvailableSlots field is present gets the
\* AvailableSlots error whenever the value is not a non-empty list made only
\* of finite numbers (empty, unparseable, or a non-numeric element next to
\* numeric ones) and none when it is such a list; a worker without the field
\* gets none
C15_AvailableSlots ==
    Returned("validateBatch") /\ inp.dataType = "workers" =>
        \A i \in 1..Len(Batch) :
            IF "AvailableSlots" \in DOMAIN Batch[i] /\ ~IsNumberList(Batch[i].AvailableSlots)
            THEN Cardinality(ErrorsAbout(i, "AvailableSlots")) = 1
            ELSE ErrorsAbout(i, "AvailableSlots") = {}

\* C15 where only a value without any finite number is an error
C15_WhenNoNumberAtAll ==
    Returned("validateBatch") /\ inp.dataType = "workers" =>
        \A i \in 1..Len(Batch) :
            IF /\ "AvailableSlots" \in DOMAIN Batch[i]
               /\ \A k \in 1..Len(ListItems(Batch[i].AvailableSlots)) :
                     ~IsFinite(ToNumber(ListItems(Batch[i].AvailableSlots)[k]))
            THEN Cardinality(ErrorsAbout(i, "AvailableSlots")) = 1
            ELSE ErrorsAbout(i, "AvailableSlots") = {}

-----------------------------------------------------------------------------
(* Properties of the registry, checked under SpecRegistry *)

\* the records a value passed to setData holds
RecordsPassed(data) == IF data.t = "array" THEN data.v ELSE <<>>

\* C16: after any sequence of setData calls getData(kind) returns exactly the
\* records passed to the most recent setData for that kind, the empty
\* sequence if there was none or if the last value passed was not an array;
\* a setData for one kind leaves the other two collections as they were
C16_GetDataReturnsLastSet ==
    /\ \A kind \in DataTypes : getData(registry, kind) = RecordsPassed(last[kind])
    /\ Returned("getData") => out = RecordsPassed(last[inp.type])

\* one kind was last set to a value that is not an array and reads as the
\* empty sequence, while the other two still read as the rows stored for them
C16_Witness ==
    \E kind \in DataTypes :
        /\ last[kind].t # "array"
        /\ Returned("getData") /\ inp.type = kind /\ out = <<>>
        /\ \A other \in DataTypes \ {kind} :
              Len(getData(registry, other)) > 1 /\ last[other] = Arr(registry[other])

-----------------------------------------------------------------------------
(* Properties of the readers of the registry, checked under SpecReaders *)

\* C17: validateRecord, validateBatch and generateValidationReport never
\* write the registry: a step that is a call of one of them leaves the three
\* collections as they were, whatever the batch, the kind and the rules; only
\* the ingestion path changes them
C17_ValidatorsOnlyRead ==
    [][pc' \in {"validateRecord", "validateBatch", "generateValidationReport"}
          => registry' = registry]_vars

\* a report of a validated batch is at hand while the registry holds the
\* rows of all three kinds, as they were stored
C17_Witness ==
    /\ Returned("generateValidationReport")
    /\ Len(inp.results) > 0
    /\ \A kind \in DataTypes :
          registry[kind] # <<>> /\ registry[kind] = RecordsPassed(last[kind])

-----------------------------------------------------------------------------
(* Properties of the rule catalog, checked under SpecCatalog *)

\* C18: in every state of the catalog reached from the default rules by
\* addRule, removeRule and updateRule calls, no two rules in the list of one
\* kind have the same id
C18_UniqueRuleIds ==
    \A kind \in DataTypes : \A i, j \in 1..Len(rules[kind]) :
        i # j => rules[kind][i].id # rules[kind][j].id

\* a list without its element at index i
Without(list, i) == SubSeq(list, 1, i - 1) \o SubSeq(list, i + 1, Len(list))

\* the rules of a catalog, those of one kind with a given id left out
WithoutId(rls, kind, ruleId) ==
    LET Other(rule) == rule.id # ruleId
    IN  [rls EXCEPT ![kind] = SelectSeq(@, Other)]

\* what validateRecord returns for a record once the step is taken
ResultAfter(rls, record, kind, now) == validateRecord(rls, record, kind, NoAI, now)

\* a step that is addRule(kind, r): the list of the kind is the old one with r
\* at its end, and a record violating r gets r's finding
AddRuleTakesEffect ==
    \A kind \in DataTypes : \A r \in AddableRules :
        rules' = addRule(rules, kind, r) =>
            /\ SubSeq(rules'[kind], 1, Len(rules[kind])) = rules[kind]
            /\ \A other \in DataTypes \ {kind} : rules'[other] = rules[other]
            /\ \A record \in Records(kind) : \A now \in Times :
                  RunCondition(r.condition, Get(record, r.field), now) = "F" =>
                      LET res == ResultAfter(rules', record, kind, now)
                          list == IF r.severity = "error" THEN res.errors
                                  ELSE IF r.severity = "warning" THEN res.warnings
                                  ELSE res.suggestions
                      IN  \E k \in 1..Len(list) : list[k] = RuleFinding(r)

\* a step that is removeRule(kind, id): with the id in the list, the other
\* rules stay in their order and no result for the kind holds a finding of a
\* rule with that id; with the id not in the list nothing changes
RemoveRuleTakesEffect ==
    \A kind \in DataTypes : \A ruleId \in RuleIds(rules[kind]) \cup {"no-such-rule"} :
        rules' = removeRule(rules, kind, ruleId) =>
            /\ \A other \in DataTypes \ {kind} : rules'[other] = rules[other]
            /\ IF ruleId \in RuleIds(rules[kind])
               THEN /\ \E i \in 1..Len(rules[kind]) :
                          rules[kind][i].id = ruleId /\ rules'[kind] = Without(rules[kind], i)
                    /\ \A record \in Records(kind) : \A now \in Times :
                          ResultAfter(rules', record, kind, now)
                             = ResultAfter(WithoutId(rules', kind, ruleId), record, kind, now)
               ELSE rules' = rules

\* a step that is updateRule(kind, id, updates) with the id not in the list
\* changes nothing, and with the id in the list changes no other kind
UpdateRuleTakesEffect ==
    \A kind \in DataTypes : \A ruleId \in UpdatedIds : \A updates \in RuleUpdates :
        rules' = updateRule(rules, kind, ruleId, updates) =>
            /\ \A other \in DataTypes \ {kind} : rules'[other] = rules[other]
            /\ ruleId \notin RuleIds(rules[kind]) => rules' = rules

\* C19: catalog mutations take effect for every later validation of the kind
\* and for nothing else: after addRule(kind, r) a record violating r gets r's
\* finding; after removeRule(kind, id) no validateRecord result for the kind
\* holds a finding of a rule with that id, and the remaining rules keep their
\* order; rules of other kinds are unaffected; removeRule and updateRule with
\* an id not in the list change nothing
C19_MutationsTakeEffect ==
    [][AddRuleTakesEffect /\ RemoveRuleTakesEffect /\ UpdateRuleTakesEffect]_vars

\* C19 for the steps taken while the ids of every kind are unique
C19_WhenIdsUnique ==
    [][C18_UniqueRuleIds =>
          AddRuleTakesEffect /\ RemoveRuleTakesEffect /\ UpdateRuleTakesEffect]_vars

-----------------------------------------------------------------------------
(* Properties of the report generator, checked under SpecReport *)

\* the error and warning findings of the results handed in, in the order the
\* results and their lists hold them
Encountered ==
    Flatten([i \in 1..Len(inp.results) |->
                inp.results[i].errors \o inp.results[i].warnings])

\* the info suggestions of the results handed in
Suggested == Flatten([i \in 1..Len(inp.results) |-> inp.results[i].suggestions])

\* the messages of a list of findings
MessagesOf(list) == {list[k].message : k \in 1..Len(list)}

\* the number of findings of a list with message m
Occurrences(list, m) == Cardinality({k \in 1..Len(list) : list[k].message = m})

\* where message m is met first in a list
FirstMet(list, m) ==
    CHOOSE k \in 1..Len(list) :
        list[k].message = m /\ \A j \in 1..(k - 1) : list[j].message # m

\* C20: topIssues groups the error and warning findings of all results,
\* never the info suggestions, by exact message text, the count of an entry
\* being the number of findings with its message; it is sorted by count
\* descending with ties in first-encounter order, holds at most 10 entries,
\* the first of that order, and is empty when there is no error or warning
C20_TopIssues ==
    Returned("generateValidationReport") =>
        LET top == out.topIssues
            met == Encountered
            messages == MessagesOf(met)
            count == [m \in messages |-> Occurrences(met, m)]
            first == [m \in messages |-> FirstMet(met, m)]
            \* m comes before n: more findings, or as many and met earlier
            Outranks(m, n) ==
                count[m] > count[n] \/ (count[m] = count[n] /\ first[m] < first[n])
            listed == MessagesOf(top)
        IN  /\ Len(top) = Min(10, Cardinality(messages))
            /\ listed \subseteq messages
            /\ \A k \in 1..Len(top) : top[k].count = count[top[k].message]
            /\ \A j, k \in 1..Len(top) : j < k => Outranks(top[j].message, top[k].message)
            /\ \A m \in messages \ listed :
                  \A k \in 1..Len(top) : Outranks(top[k].message, m)
            /\ met = <<>> => top = <<>>

\* a report over more than 10 different messages, cut to 10, with entries
\* of different counts, entries of equal count, and a message that is counted
\* as an error but not where it is an info suggestion
C20_Witness ==
    /\ Returned("generateValidationReport")
    /\ Cardinality(MessagesOf(Encountered)) > 10
    /\ Len(out.topIssues) = 10
    /\ out.topIssues[1].count > out.topIssues[2].count
    /\ out.topIssues[2].count = out.topIssues[3].count
    /\ \E k \in 1..10 : \E j \in 1..Len(Suggested) :
          /\ Suggested[j].message = out.topIssues[k].message
          /\ out.topIssues[k].count = 1

-----------------------------------------------------------------------------
(* The report never fails, checked under SpecReport *)

\* the error findings and the warning findings of a list of results, each
\* named by its result and its position
ErrorsIn(results) ==
    UNION {{i} \X (1..Len(results[i].errors)) : i \in 1..Len(results)}

WarningsIn(results) ==
    UNION {{i} \X (1..Len(results[i].warnings)) : i \in 1..Len(results)}

\* m is the arithmetic mean of the scores of a non-empty list of results:
\* the ratio of their sum to their number, not a number when a score is not
ArithmeticMean(m, results) ==
    LET n == Len(results)
        scores == [i \in 1..n |-> results[i].score]
    IN  IF \E i \in 1..n : scores[i] = NaN THEN m = NaN
        ELSE /\ m.den = n
             /\ m.num = SumOf([i \in 1..n |-> scores[i].v])

\* C21: generateValidationReport never raises, the empty list included; the
\* summary of its report counts the results, the valid results, the error
\* findings and the warning findings, its averageScore is the arithmetic mean
\* of the scores, not a number for the empty list; results without errors and
\* warnings give no top issues
C21_ReportNeverRaises ==
    Returned("generateValidationReport") =>
        LET results == inp.results
            n == Len(results)
        IN  /\ out # Thrown
            /\ out.summary.totalRecords = n
            /\ out.summary.validRecords = Cardinality({i \in 1..n : results[i].isValid})
            /\ out.summary.errorCount = Cardinality(ErrorsIn(results))
            /\ out.summary.warningCount = Cardinality(WarningsIn(results))
            /\ IF n = 0 THEN out.summary.averageScore = NaN
               ELSE ArithmeticMean(out.summary.averageScore, results)
            /\ (\A i \in 1..n : results[i].errors = <<>> /\ results[i].warnings = <<>>)
                  => out.topIssues = <<>>

\* a report of the empty list was asked for while the call of the language
\* model was rejected
C21_Witness ==
    /\ Returned("generateValidationReport")
    /\ inp.results = <<>>
    /\ inp.answer.kind = "rejected"
    /\ out.summary.averageScore = NaN

-----------------------------------------------------------------------------
(* validateBatch called twice, checked under SpecTwice *)

\* the findings, isValid and score of a result
Judgement(result) ==
    [errors |-> result.errors, warnings |-> result.warnings,
     suggestions |-> result.suggestions, isValid |-> result.isValid,
     score |-> result.score]

\* C22: a second validateBatch call on the same batch, with the same rule set
\* and the same registry contents, returns the findings, isValid and score of
\* the first at every index
C22_SameResultsTwice ==
    Returned("validateBatchAgain") =>
        /\ Len(out) = Len(prev.out)
        /\ \A i \in 1..Len(out) : Judgement(out[i]) = Judgement(prev.out[i])

\* the second call differs from the first only when the clock has moved
C22_WhenClockStands ==
    Returned("validateBatchAgain") /\ inp.now = prev.inp.now =>
        \A i \in 1..Len(out) : Judgement(out[i]) = Judgement(prev.out[i])

-----------------------------------------------------------------------------
(* The steps of one validateBatch call, checked under SpecFlight *)

\* the cross-record phase of the call under way has begun
CrossPhaseBegun == flight # NoCall /\ flight.phase \in {"cross", "merged"}

\* C23: the cross-record phase begins only after every per-record validation
\* of the batch has completed: once it has begun, and when its findings are
\* merged, a per-record result exists at every index of the batch
C23_CrossAfterAllRecords ==
    CrossPhaseBegun =>
        /\ DOMAIN flight.results = 1..Len(flight.records)
        /\ \A i \in 1..Len(flight.records) :
              /\ flight.results[i] # Pending
              /\ flight.results[i].recordType = flight.dataType
              /\ flight.phase = "merged" => out[i] # Pending

\* the findings of a batch of several records have been merged
C23_Witness ==
    /\ flight # NoCall
    /\ flight.phase = "merged"
    /\ Len(flight.records) >= 2
    /\ \E i \in 1..Len(flight.records) : out[i].errors # flight.results[i].errors

\* C29: all registry reads made by the cross-record phase of one
\* validateBatch call observe one registry state, whatever setData calls
\* took effect while the per-record validations were pending: no setData
\* takes effect between two of the reads, and the findings are those of that
\* one state
C29_OneRegistryState ==
    CrossPhaseBegun =>
        /\ \A j, k \in DOMAIN flight.reads : flight.reads[j] = flight.reads[k]
        /\ \E state \in {flight.reads[k] : k \in DOMAIN flight.reads} :
              flight.cross = performCrossRecordValidation(
                                state, flight.records, flight.dataType, flight.now)

\* a setData replaced the clients while the per-record validations of a batch
\* of tasks were pending, and the cross-record phase has run after it
C29_Witness ==
    /\ CrossPhaseBegun
    /\ flight.dataType = "tasks"
    /\ flight.records # <<>>
    /\ flight.clientsBefore # flight.reads[1].clients
    /\ flight.reads[1].clients # <<>>

-----------------------------------------------------------------------------
(* Overlapping ingestions, checked under SpecIngest *)

\* the step is the setData of ingestion p storing its rows under kind
Stores(p, kind) ==
    /\ ingest[p].stage = "validating"
    /\ ingest[p].type = kind
    /\ ingest'[p].stage = "returned"
    /\ ingest'[p].stored

-----------------------------------------------------------------------------
(* The number-list parser, checked under SpecParse *)

\* the items of a bracketed list, none when there is only white space
\* between the brackets
ItemsOf(t) ==
    LET body == trim(SubSeq(t, 2, Len(t) - 1))
    IN  IF body = <<>> THEN <<>> ELSE SplitAt(body, ",")

\* the text is a bracketed list of integer literals
IsIntegerArrayText(t) ==
    /\ Len(t) >= 2 /\ Head(t) = "[" /\ t[Len(t)] = "]"
    /\ \A i \in 1..Len(ItemsOf(t)) : IsJsonInt(trim(ItemsOf(t)[i]))

\* the integers a text of comma-separated tokens names, empty tokens skipped
TokensOf(t) == SelectSeq(SplitComma(t), NonEmptyStr)

IsIntegerToken(token) == StrToNum(token) # NaN

\* what the parser is to return for a text
ExpectedNumbers(t) ==
    LET range == RangeDigits(t)
        numeric == SelectSeq(TokensOf(SelectSeq(t, NotBracket)), IsIntegerToken)
    IN  IF IsIntegerArrayText(t)
        THEN [i \in 1..Len(ItemsOf(t)) |-> StrToNum(ItemsOf(t)[i]).v]
        ELSE IF range.ok /\ DigitsVal(range.a) <= DigitsVal(range.b)
        THEN [i \in 1..(DigitsVal(range.b) - DigitsVal(range.a) + 1) |->
                 DigitsVal(range.a) + i - 1]
        ELSE IF range.ok THEN <<>>
        ELSE [i \in 1..Len(numeric) |-> StrToNum(numeric[i]).v]

\* the call returned integers: those of the list, range or tokens of a
\* text, none for a value that is neither text nor array
ParsedLists ==
    /\ out # Thrown
    /\ \A i \in 1..Len(out.value) : out.value[i] \in Int
    /\ inp.input.t \notin {"string", "array"} => out.value = <<>>
    /\ inp.input.t = "string" => out.value = ExpectedNumbers(trim(inp.input.v))

\* a text without a digit gave the empty sequence
NothingFromNoNumber ==
    inp.input.t = "string" /\ (\A i \in 1..Len(inp.input.v) : ~IsDigit(inp.input.v[i]))
        => out # Thrown /\ out.value = <<>>

\* C25: parseNumberList never throws and returns only finite numbers: the
\* numeric elements of a JSON-array text in order, the integers a..b of a
\* range "a-b" with a <= b, the numeric tokens of a comma-separated text in
\* order with empty tokens skipped, and the empty sequence for a text without
\* a number, a range with a > b and a value that is neither text nor array
C25_ParseNumberList ==
    Returned("parseNumberList") => ParsedLists /\ NothingFromNoNumber

\* apart from a range too long for an array the parser returns the integers
\* of the list, range or tokens, where a token of white space counts as 0
C25_WhenRangeFitsArray ==
    Returned("parseNumberList") /\ ~parseNumberListThrows(inp.input) => ParsedLists

\* the parser never throws
C25_NeverThrows == Returned("parseNumberList") => out # Thrown

\* a text without a digit gives the empty sequence
C25_NothingFromNoNumber == Returned("parseNumberList") => NothingFromNoNumber

-----------------------------------------------------------------------------
(* The validation results of a DataGrid, checked under SpecGrid *)

\* the results of validating the rows the grid shows
ResultsOfLocalData ==
    validateBatch(registry, rules, grid.localData, "clients",
                  [i \in 1..Len(grid.localData) |-> NoAI], 0)

\* C26: whenever no validateBatch call of the grid is under way the stored
\* validationResults are the results of validating the current localData,
\* of the same length and index-aligned
C26_ResultsMatchData ==
    grid.mounted /\ grid.inflight = <<>> =>
        /\ Len(grid.validationResults) = Len(grid.localData)
        /\ grid.validationResults = ResultsOfLocalData

\* the results match when there are rows and no call was overtaken
C26_WhenInOrderAndRows ==
    grid.mounted /\ grid.inflight = <<>> /\ ~grid.overtaken /\ grid.localData # <<>> =>
        grid.validationResults = ResultsOfLocalData

\* the results match when no call was overtaken
C26_WhenInOrder ==
    grid.mounted /\ grid.inflight = <<>> /\ ~grid.overtaken =>
        grid.validationResults = ResultsOfLocalData

\* the results match when there are rows
C26_WhenRows ==
    grid.mounted /\ grid.inflight = <<>> /\ grid.localData # <<>> =>
        grid.validationResults = ResultsOfLocalData

-----------------------------------------------------------------------------
(* Scores, qualified workers and record ids of a batch, checked under SpecCross *)

\* the result validateRecord gives for record i of the batch alone
OwnResult(i) == validateRecord(rules, Batch[i], inp.dataType, inp.ai[i], inp.now)

\* C27: the score and qualityScore of each result of validateBatch are those
\* validateRecord computes for the record alone; the findings of the
\* cross-record phase never change them
C27_ScoreOfRecordAlone ==
    Returned("validateBatch") =>
        \A i \in 1..Len(Batch) :
            LET own == OwnResult(i)
            IN  /\ out[i].score = own.score
                /\ out[i].qualityScore = own.qualityScore
                /\ out[i].qualityScore = out[i].score

\* a record without errors of its own carries a cross-record error and has
\* score 100
C27_Witness ==
    /\ Returned("validateBatch")
    /\ \E i \in 1..Len(Batch) :
          /\ OwnResult(i).errors = <<>>
          /\ out[i].errors # <<>>
          /\ out[i].score = Num(100)

\* the errors of result i that the skill-coverage check made
CoverageErrors(i) ==
    {k \in 1..Len(out[i].errors) :
        /\ out[i].errors[k].field = "RequiredSkills"
        /\ out[i].errors[k].message.text = "Missing worker coverage for skills: {missing}"}

\* the errors of result i that the max-concurrency check made
ConcurrencyErrors(i) ==
    {k \in 1..Len(out[i].errors) :
        /\ out[i].errors[k].field = "MaxConcurrent"
        /\ out[i].errors[k].severity = "error"}

\* MaxConcurrent of a task, 1 when the task has none
MaxConcurrentOf(t) ==
    LET raw == Coalesce(Get(t, "MaxConcurrent"), Get(t, "maxConcurrent"))
    IN  IF IsNullish(raw) THEN Num(1) ELSE ToNumber(raw)

\* C28: a task with a skill-coverage error has no qualified worker in the
\* registry and so also has the MaxConcurrent error when its MaxConcurrent,
\* 1 by default, is at least 1; a task with a qualified worker has no
\* skill-coverage error
C28_CoverageAndConcurrency ==
    Returned("validateBatch") /\ inp.dataType = "tasks" =>
        \A i \in 1..Len(Batch) :
            LET qualified == QualifiedWorkers(Batch[i])
                maxConc == MaxConcurrentOf(Batch[i])
            IN  /\ CoverageErrors(i) # {} =>
                      /\ qualified = {}
                      /\ maxConc.t = "number" /\ maxConc.v >= 1 => ConcurrencyErrors(i) # {}
                /\ qualified # {} => CoverageErrors(i) = {}

\* a task one of whose two required skills no worker has carries both
\* errors, with workers in the registry that have the other skill
C28_Witness ==
    /\ Returned("validateBatch")
    /\ inp.dataType = "tasks"
    /\ \E i \in 1..Len(Batch) :
          /\ CoverageErrors(i) # {}
          /\ ConcurrencyErrors(i) # {}
          /\ \E k \in 1..Len(RequiredSkillsOf(Batch[i])) :
                toLowerCase(RequiredSkillsOf(Batch[i])[k]) \in RegistrySkills

-----------------------------------------------------------------------------
(* The record ids of a batch, checked under SpecBatch *)

\* C30: every result of validateBatch carries a defined recordId: the id of
\* the record if it has one, else its _rowIndex, else its position in the
\* batch
C30_RecordIdDefined ==
    Returned("validateBatch") =>
        \A i \in 1..Len(Batch) :
            /\ out[i].recordId # Undefined
            /\ out[i].recordId = CrossRecordIdOf(Batch[i], i)

\* a record with an id or a _rowIndex has that as the recordId of its result
C30_WhenIdOrRowIndex ==
    Returned("validateBatch") =>
        \A i \in 1..Len(Batch) :
            Truthy(Get(Batch[i], "id")) \/ ~IsNullish(Get(Batch[i], "_rowIndex")) =>
                /\ out[i].recordId # Undefined
                /\ out[i].recordId = CrossRecordIdOf(Batch[i], i)

====
